---- MODULE Spec2Model ----
(***************************************************************************)
(* Verification model of the Telegram reply dispatch of openclaw:          *)
(*   - the draft stream (draft-stream.ts, createTelegramDraftStream): the  *)
(*     throttle engine that turns update()/flush()/stop() calls into       *)
(*     sendMessage / editMessageText calls on one draft message;           *)
(*   - the dispatcher (bot-message-dispatch.ts, dispatchTelegramMessage).  *)
(* Texts are sequences of characters; time is in milliseconds.             *)
(***************************************************************************)
EXTENDS Integers, Sequences, FiniteSets, TLC

\* ---------------------------------------------------------------- bounds
\* Longest text an update() is given in the model.
MaxLen == 2
\* Number of clock steps a behaviour may take.
MaxTicks == 2
\* Longest partial reply text of a dispatch, and the number of callbacks the
\* reply dispatcher makes in one dispatch.
MaxPartialLen == 2
MaxEvents == 3
\* Most onFallback callbacks of one dispatch.
MaxFallbacks == 2
\* selectAndStream calls and reset-cooldowns runs of one behaviour, the time
\* the ledger's clock starts at and the ticks it makes.
MaxCalls == 1
MaxResets == 1
StartClock == 10
MaxClockTicks == 2

\* ------------------------------------------------------ program constants
TELEGRAM_DRAFT_MAX_CHARS == 4096
DEFAULT_THROTTLE_MS == 300
MIN_THROTTLE_MS == 50

\* ------------------------------------------------------------------ texts
Chars == {"a", " "}
Whitespace == {" ", "\n"}

RECURSIVE SeqsUpTo(_)
SeqsUpTo(n) ==
    IF n = 0 THEN {<<>>}
    ELSE LET shorter == SeqsUpTo(n - 1)
         IN  shorter \cup {Append(s, c) : s \in {x \in shorter : Len(x) = n - 1}, c \in Chars}

\* The texts update() is called with.
Texts == SeqsUpTo(MaxLen)

\* String.prototype.trimEnd / trimStart / trim
RECURSIVE trimEnd(_)
trimEnd(s) ==
    IF s = <<>> THEN <<>>
    ELSE IF s[Len(s)] \in Whitespace THEN trimEnd(SubSeq(s, 1, Len(s) - 1))
    ELSE s

RECURSIVE trimStart(_)
trimStart(s) ==
    IF s = <<>> THEN <<>>
    ELSE IF s[1] \in Whitespace THEN trimStart(Tail(s))
    ELSE s

trim(s) == trimStart(trimEnd(s))

Min(a, b) == IF a < b THEN a ELSE b
Max(a, b) == IF a > b THEN a ELSE b

\* ------------------------------------------------------------------ state
VARIABLES
    \* createTelegramDraftStream: parameters and closure variables
    maxChars, throttleMs,
    lastSentText, lastSentAt, pendingText, inFlight, timer, stopped, sentMessageId,
    \* the flush() invocation suspended at `await sendDraft(text)`:
    \* "none", "settled" (sendDraft returned without a sink call; the
    \* continuation is queued) or "sink" (waiting for the sink call)
    awaiting,
    \* TRUE when the suspended flush() is one whose promise a caller awaits
    flightExplicit,
    \* the environment: clock (Date.now()), outbound sink calls not yet
    \* completed, number of messages the chat holds
    now, calls, msgCount,
    \* history: what the callers did and what the engine started
    lastUpdateText, flushedLast, stopCalled, sinkFailed, overCap,
    lastMutation, justResolved,
    \* the warnings given to params.warn, and whether a promise of flush() was
    \* rejected
    warnings, rejected,
    \* the coalescing scenario (two update() calls, then a wait): how far it
    \* is and the texts of the mutations started since its first update()
    scn

engineVars == <<maxChars, throttleMs, lastSentText, lastSentAt, pendingText, inFlight,
                timer, stopped, sentMessageId, awaiting, flightExplicit>>
envVars == <<now, calls, msgCount>>
histVars == <<lastUpdateText, flushedLast, stopCalled, sinkFailed, overCap,
              lastMutation, justResolved, warnings, rejected, scn>>
draftVars == <<engineVars, envVars, histVars>>

VARIABLES
    \* dispatchTelegramMessage: where the dispatch is ("none": no dispatch, the
    \* stream is used on its own; "run": inside
    \* dispatchReplyWithBufferedBlockDispatcher; "fallback" / "errnotice":
    \* awaiting the deliverReplies call of a notice; "done")
    dpc,
    \* the deliver callback: "idle", "flush" (awaiting flushDraft) or "replies"
    \* (awaiting deliverReplies), the kind of its payload and its editMessageId
    dlv, dlvKind, editMessageId,
    \* closure variables of the dispatch
    lastPartialText, draftText, draftReasoning, draftToolStatus, draftModelStatus,
    isStreaming, lastShownModel, deliveryState, sentFallback, hasFinalResponse,
    \* the dispatcher's result, once it has returned
    queuedFinal,
    \* the stream mode ("partial" or "block"), the text the block chunker
    \* holds back, and (history) whether a partial reply restarted the text
    streamMode, chunkBuf, restarted,
    \* history: notices handed to deliverReplies (the label of each and the
    \* error its text quotes), callbacks made so far, and how the latest final
    \* payload was handed to deliverReplies (with the messages that hold a final
    \* reply delivered as an edit)
    notices, nEvents, finalCall,
    \* history: onFallback callbacks made, and the messages they handed to
    \* sendMessageTelegram (the context of each callback and the text)
    fallbackCalls, alerts

renderVars == <<lastPartialText, draftText, draftReasoning, draftToolStatus,
                draftModelStatus, isStreaming, lastShownModel, streamMode, chunkBuf, restarted>>
chunkVars == <<streamMode, chunkBuf, restarted>>
deliverVars == <<dlv, dlvKind, editMessageId, finalCall>>
outcomeVars == <<deliveryState, sentFallback, hasFinalResponse, queuedFinal, notices>>
alertVars == <<fallbackCalls, alerts>>
dispVars == <<dpc, renderVars, deliverVars, outcomeVars, nEvents, alertVars>>

VARIABLES
    \* the usage stats of the auth-profile store as persisted: for each profile
    \* id no entry (<<>>) or one (<<entry>>)
    ledger,
    \* the reset-cooldowns command: where it is, its options and the store it
    \* loaded
    rc,
    \* one selectAndStream call: where it is, the candidate it is at, its
    \* attempt log, the candidates it invoked, the streams it returned and the
    \* error it threw
    sel,
    \* the time the ledger's writers read
    clock,
    \* history: the ledger as the writers' updates leave it when they are
    \* applied one after the other, and the calls and commands started
    expect, nCalls, nResets

ledgerVars == <<ledger, rc, sel, clock, expect, nCalls, nResets>>

VARIABLES
    \* one buildModelPickerMessage request: where it is, the catalog it loads,
    \* its provider and page parameters and the message it returned
    pk,
    \* one use of createThinkingDisabledWrapper: where it is, the model, the
    \* caller's options, the stream function returned, the options the base
    \* stream function received, the payloads it built (as built and as they
    \* were after its onPayload call) and the payloads the caller's onPayload
    \* received
    tw,
    \* the module-level map of sent messages: for each chat key no entry (<<>>)
    \* or one (<<entry>>)
    sentMessages,
    \* the value Date.now() returns
    dateNow,
    \* the value the last read of the cache returned
    lastRead,
    \* history: for each chat key and message id the time of its latest
    \* recording since the cache was last cleared, and the recordings and clock
    \* advances made
    recorded, nRecords, nAdvances

cacheVars == <<sentMessages, dateNow, lastRead, recorded, nRecords, nAdvances>>
auxVars == <<pk, tw, cacheVars>>
vars == <<draftVars, dispVars, ledgerVars, auxVars>>

\* The values of params.maxChars and params.throttleMs a stream is built with.
MaxCharsParams == {<<MaxLen - 1>>, <<MaxLen>>}
ThrottleParams == {<<20>>, <<80>>}

\* Date.now() when the stream is created (lastSentAt starts at 0, the epoch).
StartTime == 1000
\* The clock advances in steps of half a throttle window.
TickMs == throttleMs \div 2
EndTime == StartTime + MaxTicks * TickMs

\* `opt ?? d`: an optional parameter is <<>> when left out, <<v>> when given.
orDefault(opt, d) == IF opt = <<>> THEN d ELSE opt[1]

\* createTelegramDraftStream(params): `mc` and `th` are params.maxChars and
\* params.throttleMs.
InitEngine(mc, th) ==
    /\ maxChars = Min(orDefault(mc, TELEGRAM_DRAFT_MAX_CHARS), TELEGRAM_DRAFT_MAX_CHARS)
    /\ throttleMs = Max(MIN_THROTTLE_MS, orDefault(th, DEFAULT_THROTTLE_MS))
    /\ lastSentText = <<>>
    /\ lastSentAt = 0
    /\ pendingText = <<>>
    /\ inFlight = FALSE
    /\ timer = <<>>
    /\ stopped = FALSE
    /\ sentMessageId = 0
    /\ awaiting = "none"
    /\ flightExplicit = FALSE

InitEnv ==
    /\ now = StartTime
    /\ calls = <<>>
    /\ msgCount = 0

InitHist ==
    /\ lastUpdateText = <<>>
    /\ flushedLast = FALSE
    /\ stopCalled = FALSE
    /\ sinkFailed = FALSE
    /\ overCap = FALSE
    /\ lastMutation = [trigger |-> "none", short |-> FALSE, text |-> <<>>, same |-> FALSE]
    /\ justResolved = FALSE
    /\ warnings = {}
    /\ rejected = FALSE
    /\ scn = [phase |-> "before", sent |-> <<>>, inWindow |-> FALSE, winEnd |-> 0,
              at |-> 0, dup |-> FALSE]

\* ------------------------------------------------------ the draft stream
\* The variables update(), flush() and stop() write (with their history).
opVars == <<timer, pendingText, inFlight, flightExplicit, justResolved, stopped,
            lastSentText, lastSentAt, calls, awaiting, lastMutation, warnings>>
sendVars == <<stopped, lastSentText, lastSentAt, calls, awaiting, lastMutation, warnings>>

\* schedule(): arms the throttle timer unless one is armed; `tm` is the value
\* of `timer` when schedule() is called. An armed timer is <<deadline>>.
scheduleNever(tm) == tm

scheduleNoDelay(tm) ==
    IF tm # <<>> THEN tm ELSE <<now>>

schedule(tm) ==
    IF tm # <<>> THEN tm
    ELSE <<now + Max(0, throttleMs - (now - lastSentAt))>>

\* sendDraft's tests of the trimmed text, and the sink call it chooses.
overMaxCharsNever(trimmed) == FALSE

overMaxChars(trimmed) == Len(trimmed) > maxChars

isDuplicateNever(trimmed) == FALSE

isDuplicate(trimmed) == trimmed = lastSentText

sinkCallKindSend == "send"

sinkCallKind == IF sentMessageId # 0 THEN "edit" ELSE "send"

\* sendDraft(text), up to its first await. `trig` names what called flush().
sendDraft(text, trig) ==
    LET trimmed == trimEnd(text) IN
    IF stopped \/ trimmed = <<>>
    THEN /\ awaiting' = "settled"
         /\ UNCHANGED <<stopped, lastSentText, lastSentAt, calls, lastMutation, warnings>>
    ELSE IF overMaxChars(trimmed)
    THEN /\ stopped' = TRUE
         /\ warnings' = warnings \cup {"too long"}
         /\ awaiting' = "settled"
         /\ UNCHANGED <<lastSentText, lastSentAt, calls, lastMutation>>
    ELSE IF isDuplicate(trimmed)
    THEN /\ awaiting' = "settled"
         /\ UNCHANGED <<stopped, lastSentText, lastSentAt, calls, lastMutation, warnings>>
    ELSE /\ lastSentText' = trimmed
         /\ lastSentAt' = now
         /\ calls' = Append(calls, [kind |-> sinkCallKind, id |-> sentMessageId,
                                    text |-> trimmed])
         /\ awaiting' = "sink"
         /\ lastMutation' = [trigger |-> trig,
                             short |-> lastSentAt # 0 /\ now - lastSentAt < throttleMs,
                             text |-> trimmed,
                             same |-> lastMutation.trigger # "none"
                                        /\ lastMutation.text = trimmed]
         /\ UNCHANGED <<stopped, warnings>>

\* sendDraft's catch block, for the outcome of the sink call: whether it
\* stops the engine, warns, and lets the error out of sendDraft.
sendDraftCatchRethrow(outcome) ==
    [stop |-> FALSE, warn |-> FALSE, rethrow |-> outcome # "ok"]

sendDraftCatchAll(outcome) ==
    [stop |-> outcome # "ok", warn |-> outcome # "ok", rethrow |-> FALSE]

sendDraftCatch(outcome) ==
    IF outcome \in {"ok", "notModified"}
    THEN [stop |-> FALSE, warn |-> FALSE, rethrow |-> FALSE]
    ELSE [stop |-> TRUE, warn |-> TRUE, rethrow |-> FALSE]

\* flush(): `pending` is the value of pendingText when it is called,
\* `explicit` says that a caller awaits the promise it returns.
flushBusyNever == FALSE

flushBusy == inFlight

flush(pending, trig, explicit) ==
    IF flushBusy
    THEN /\ timer' = schedule(<<>>)
         /\ pendingText' = pending
         /\ justResolved' = explicit
         /\ UNCHANGED <<inFlight, flightExplicit>>
         /\ UNCHANGED sendVars
    ELSE IF trim(pending) = <<>>
    THEN /\ timer' = <<>>
         /\ pendingText' = <<>>
         /\ justResolved' = explicit
         /\ UNCHANGED <<inFlight, flightExplicit>>
         /\ UNCHANGED sendVars
    ELSE /\ timer' = <<>>
         /\ pendingText' = <<>>
         /\ inFlight' = TRUE
         /\ flightExplicit' = explicit
         /\ justResolved' = FALSE
         /\ sendDraft(pending, trig)

\* update(text)
updateDropWhenBusy(text) ==
    IF stopped \/ inFlight
    THEN UNCHANGED <<timer, pendingText, inFlight, flightExplicit, stopped,
                     lastSentText, lastSentAt, calls, awaiting, lastMutation, warnings>>
         /\ justResolved' = FALSE
    ELSE IF ~(timer = <<>> /\ now - lastSentAt >= throttleMs)
    THEN /\ pendingText' = text
         /\ timer' = schedule(timer)
         /\ justResolved' = FALSE
         /\ UNCHANGED <<inFlight, flightExplicit>>
         /\ UNCHANGED sendVars
    ELSE flush(text, "update", FALSE)

updateKeepFirst(text) ==
    IF stopped
    THEN UNCHANGED <<timer, pendingText, inFlight, flightExplicit, stopped,
                     lastSentText, lastSentAt, calls, awaiting, lastMutation, warnings>>
         /\ justResolved' = FALSE
    ELSE IF inFlight \/ ~(timer = <<>> /\ now - lastSentAt >= throttleMs)
    THEN /\ pendingText' = IF pendingText # <<>> THEN pendingText ELSE text
         /\ timer' = schedule(timer)
         /\ justResolved' = FALSE
         /\ UNCHANGED <<inFlight, flightExplicit>>
         /\ UNCHANGED sendVars
    ELSE flush(text, "update", FALSE)

update(text) ==
    IF stopped
    THEN UNCHANGED <<timer, pendingText, inFlight, flightExplicit, stopped,
                     lastSentText, lastSentAt, calls, awaiting, lastMutation, warnings>>
         /\ justResolved' = FALSE
    ELSE IF inFlight \/ ~(timer = <<>> /\ now - lastSentAt >= throttleMs)
    THEN /\ pendingText' = text
         /\ timer' = schedule(timer)
         /\ justResolved' = FALSE
         /\ UNCHANGED <<inFlight, flightExplicit>>
         /\ UNCHANGED sendVars
    ELSE flush(text, "update", FALSE)

\* stop()
stopNoFlag ==
    /\ pendingText' = <<>>
    /\ timer' = <<>>
    /\ justResolved' = FALSE
    /\ UNCHANGED <<stopped, inFlight, flightExplicit, lastSentText, lastSentAt, calls,
                   awaiting, lastMutation, warnings>>

stopOnce ==
    /\ stopped' = TRUE
    /\ pendingText' = <<>>
    /\ timer' = IF stopped THEN timer ELSE <<>>
    /\ justResolved' = FALSE
    /\ UNCHANGED <<inFlight, flightExplicit, lastSentText, lastSentAt, calls, awaiting,
                   lastMutation, warnings>>

stop ==
    /\ stopped' = TRUE
    /\ pendingText' = <<>>
    /\ timer' = <<>>
    /\ justResolved' = FALSE
    /\ UNCHANGED <<inFlight, flightExplicit, lastSentText, lastSentAt, calls, awaiting,
                   lastMutation, warnings>>

\* The continuation of flush() after `await sendDraft(text)`: the finally
\* block and, unless sendDraft threw, the re-schedule.
flushFinally(thrown) ==
    /\ inFlight' = FALSE
    /\ awaiting' = "none"
    /\ timer' = IF pendingText # <<>> /\ ~thrown THEN schedule(timer) ELSE timer
    /\ justResolved' = (flightExplicit /\ ~thrown)
    /\ flightExplicit' = FALSE
    /\ rejected' = (rejected \/ thrown)

\* ------------------------------------------- actions of a stream on its own
paramVars == <<maxChars, throttleMs>>

Update(text) ==
    /\ update(text)
    /\ lastUpdateText' = IF stopCalled THEN lastUpdateText ELSE text
    /\ flushedLast' = FALSE
    /\ overCap' = (overCap \/ Len(trimEnd(text)) > maxChars)
    /\ UNCHANGED <<paramVars, sentMessageId, now, msgCount, rejected, stopCalled, sinkFailed>>

Flush ==
    /\ flush(pendingText, "flush", TRUE)
    /\ flushedLast' = TRUE
    /\ UNCHANGED <<paramVars, sentMessageId, now, msgCount, rejected, lastUpdateText, stopCalled,
                   sinkFailed, overCap>>

Stop ==
    /\ stop
    /\ stopCalled' = TRUE
    /\ UNCHANGED <<paramVars, sentMessageId, now, msgCount, rejected, lastUpdateText, flushedLast,
                   sinkFailed, overCap>>

\* The throttle timer's callback: `void flush()`.
TimerFire ==
    /\ timer # <<>>
    /\ now >= timer[1]
    /\ flush(pendingText, "timer", FALSE)
    /\ UNCHANGED <<paramVars, sentMessageId, now, msgCount, rejected, lastUpdateText, flushedLast,
                   stopCalled, sinkFailed, overCap>>

\* A sink call completes: the rest of sendDraft, then the rest of flush().
Outcomes == {"ok", "notModified", "error"}

SinkComplete(outcome) ==
    /\ calls # <<>>
    /\ calls' = Tail(calls)
    /\ IF outcome = "ok" /\ Head(calls).kind = "send"
       THEN /\ msgCount' = msgCount + 1
            /\ sentMessageId' = msgCount + 1
       ELSE UNCHANGED <<msgCount, sentMessageId>>
    /\ stopped' = (stopped \/ sendDraftCatch(outcome).stop)
    /\ warnings' = IF sendDraftCatch(outcome).warn THEN warnings \cup {"failed"} ELSE warnings
    /\ sinkFailed' = (sinkFailed \/ outcome # "ok")
    /\ flushFinally(sendDraftCatch(outcome).rethrow)
    /\ UNCHANGED <<paramVars, pendingText, lastSentText, lastSentAt, overCap, lastMutation,
                   now, lastUpdateText, flushedLast, stopCalled>>

\* sendDraft returned without calling the sink: flush() resumes.
FlushResume ==
    /\ awaiting = "settled"
    /\ flushFinally(FALSE)
    /\ UNCHANGED <<warnings, paramVars, pendingText, stopped, lastSentText, lastSentAt, calls, overCap,
                   lastMutation, sentMessageId, now, msgCount, lastUpdateText, flushedLast,
                   stopCalled, sinkFailed>>

Tick ==
    /\ now + TickMs <= EndTime
    /\ now' = now + TickMs
    /\ justResolved' = FALSE
    /\ UNCHANGED <<engineVars, calls, msgCount, lastUpdateText, flushedLast, stopCalled,
                   sinkFailed, overCap, lastMutation, warnings, rejected>>

\* ------------------------------------------------------- the cooldown ledger
\* Profile ids (`provider:profileId`), as the tokens they are made of; the
\* candidates of a selectAndStream call, in priority order.
ProfileIds ==
    {<<"or", ":", "a">>, <<"or", ":", "b">>, <<"go", ":", "a">>, <<"go", ":", "b">>}
Candidates ==
    << <<"or", ":", "a">>, <<"or", ":", "b">>, <<"go", ":", "a">>, <<"go", ":", "b">> >>

\* A usage-stats entry; a field that is not there is <<>>.
EmptyEntry ==
    [errorCount |-> <<>>, cooldownUntil |-> <<>>, disabledUntil |-> <<>>,
     disabledReason |-> <<>>, failureCounts |-> <<>>, lastFailureAt |-> <<>>,
     modelStats |-> <<>>, lastUsed |-> <<>>]

NoStats == [id \in ProfileIds |-> <<>>]

\* No reset command and no selectAndStream call.
NoLedger ==
    /\ ledger = NoStats /\ expect = NoStats
    /\ rc = [pc |-> "none", provider |-> <<>>, dryRun |-> FALSE, store |-> NoStats]
    /\ sel = [pc |-> "none", idx |-> 0, attempts |-> <<>>, invoked |-> {}, streams |-> 0,
              error |-> <<>>]
    /\ clock = StartClock
    /\ nCalls = 0 /\ nResets = 0

\* The chat ids the cache is called with: numbers and strings.
ChatIds ==
    {[kind |-> "number", num |-> 1, str |-> <<>>],
     [kind |-> "string", num |-> 0, str |-> <<"1">>],
     [kind |-> "number", num |-> 2, str |-> <<>>]}

\* String(n) of a chat number: its decimal digits.
String(n) == IF n = 1 THEN <<"1">> ELSE <<"2">>

getChatKey(chatId) == IF chatId.kind = "number" THEN String(chatId.num) ELSE chatId.str

ChatKeys == {getChatKey(chatId) : chatId \in ChatIds}

MaxMsgId == 3
MessageIds == 1..MaxMsgId

StartDate == 5

\* The picker is not asked, no stream function is wrapped and the cache of
\* sent messages is empty and unused.
NoPicker ==
    pk = [pc |-> "none", catalog |-> <<>>, provider |-> "", page |-> 0, out |-> <<>>]

NoWrapper ==
    tw = [pc |-> "none", model |-> [reasoning |-> FALSE, api |-> ""], options |-> "undefined",
          fn |-> "none", baseOptions |-> "none", built |-> <<>>, captured |-> <<>>]

\* The module-level state of the cache when the module is loaded.
EmptyCache ==
    /\ sentMessages = [key \in ChatKeys |-> <<>>]
    /\ dateNow = StartDate
    /\ lastRead = [op |-> "none", result |-> FALSE]
    /\ recorded = [key \in ChatKeys |-> [messageId \in MessageIds |-> <<>>]]
    /\ nRecords = 0 /\ nAdvances = 0

NoAux == NoPicker /\ NoWrapper /\ EmptyCache

\* The dispatcher's variables when no message is dispatched.
IdleDispatch ==
    /\ dpc = "none"
    /\ dlv = "idle" /\ dlvKind = "none" /\ editMessageId = 0
    /\ finalCall = [edit |-> 0, draft |-> "none", n |-> 0, held |-> {}]
    /\ lastPartialText = <<>> /\ draftText = <<>> /\ draftReasoning = <<>>
    /\ draftToolStatus = <<>> /\ draftModelStatus = <<>>
    /\ isStreaming = TRUE /\ lastShownModel = ""
    /\ streamMode = "partial" /\ chunkBuf = <<>> /\ restarted = FALSE
    /\ deliveryState = [delivered |-> FALSE, skippedNonSilent |-> 0]
    /\ sentFallback = FALSE /\ hasFinalResponse = FALSE /\ queuedFinal = FALSE
    /\ notices = <<>>
    /\ nEvents = 0
    /\ fallbackCalls = 0 /\ alerts = <<>>

\* No dispatch: the stream is driven through its interface alone.
NoDispatch == IdleDispatch /\ NoLedger /\ NoAux

Init ==
    /\ \E mc \in MaxCharsParams, th \in ThrottleParams : InitEngine(mc, th)
    /\ InitEnv /\ InitHist
    /\ NoDispatch

Next ==
    \/ \E text \in Texts : Update(text) /\ UNCHANGED <<dispVars, scn, ledgerVars, auxVars>>
    \/ Flush /\ UNCHANGED <<dispVars, scn, ledgerVars, auxVars>>
    \/ Stop /\ UNCHANGED <<dispVars, scn, ledgerVars, auxVars>>
    \/ TimerFire /\ UNCHANGED <<dispVars, scn, ledgerVars, auxVars>>
    \/ \E outcome \in Outcomes : SinkComplete(outcome) /\ UNCHANGED <<dispVars, scn, ledgerVars, auxVars>>
    \/ FlushResume /\ UNCHANGED <<dispVars, scn, ledgerVars, auxVars>>
    \/ Tick /\ UNCHANGED <<dispVars, scn, ledgerVars, auxVars>>

Spec == Init /\ [][Next]_vars

\* ------------------------------------------------ the coalescing scenario
\* update("A") then update("AB") within one throttle window, then a wait,
\* on a new stream or after earlier update() calls.
ScnA == <<"a">>
ScnAB == <<"a", "a">>

\* The texts of the mutations started since the scenario's first update().
scnSent ==
    IF scn.phase # "before" /\ Len(calls') > Len(calls)
    THEN Append(scn.sent, calls'[Len(calls')].text)
    ELSE scn.sent

\* An earlier update().
CoUpdate(text) ==
    /\ scn.phase = "before"
    /\ Update(text)
    /\ UNCHANGED <<dispVars, scn, ledgerVars, auxVars>>

\* update("A"): the window it falls in is the one opened by the start of the
\* mutation before it.
CoFirst ==
    /\ scn.phase = "before"
    /\ ~stopped
    /\ Update(ScnA)
    /\ scn' = [phase |-> "first",
               sent |-> IF Len(calls') > Len(calls) THEN <<calls'[Len(calls')].text>>
                        ELSE <<>>,
               inWindow |-> now - lastSentAt < throttleMs,
               winEnd |-> lastSentAt + throttleMs,
               at |-> now,
               dup |-> lastSentText = trimEnd(ScnAB)]
    /\ UNCHANGED <<dispVars, ledgerVars, auxVars>>

\* update("AB"), less than throttleMs after update("A").
CoSecond ==
    /\ scn.phase = "first"
    /\ now - scn.at < throttleMs
    /\ Update(ScnAB)
    /\ scn' = [scn EXCEPT !.phase = "second", !.sent = scnSent,
                          !.inWindow = @ /\ now < scn.winEnd, !.at = now]
    /\ UNCHANGED <<dispVars, ledgerVars, auxVars>>

CoTimerFire ==
    /\ TimerFire
    /\ scn' = [scn EXCEPT !.sent = scnSent]
    /\ UNCHANGED <<dispVars, ledgerVars, auxVars>>

CoSinkComplete(outcome) ==
    /\ SinkComplete(outcome)
    /\ UNCHANGED <<dispVars, scn, ledgerVars, auxVars>>

CoFlushResume ==
    /\ FlushResume
    /\ UNCHANGED <<dispVars, scn, ledgerVars, auxVars>>

CoTick ==
    /\ Tick
    /\ UNCHANGED <<dispVars, scn, ledgerVars, auxVars>>

NextCoalesce ==
    \/ \E text \in Texts : CoUpdate(text)
    \/ CoFirst
    \/ CoSecond
    \/ CoTimerFire
    \/ \E outcome \in Outcomes : CoSinkComplete(outcome)
    \/ CoFlushResume
    \/ CoTick

SpecCoalesce == Init /\ [][NextCoalesce]_vars

\* ------------------------------------------------------------ the dispatch
\* Partial reply texts: "<" is a character markdownToTelegramHtml escapes.
PartialChars == {"a", "<"}

RECURSIVE PartialsUpTo(_)
PartialsUpTo(n) ==
    IF n = 0 THEN {<<>>}
    ELSE LET shorter == PartialsUpTo(n - 1)
         IN  shorter \cup {Append(t, c) : t \in {x \in shorter : Len(x) = n - 1},
                                          c \in PartialChars}

PartialTexts == PartialsUpTo(MaxPartialLen)
ReasoningTexts == {<<"r">>, <<"Reasoning:", "\n", "r">>}
ModelKeys == {"p/m1"}
TextLimits == {4096}
DeliverKinds == {"tool", "block", "final"}
SkipReasons == {"silent", "empty"}
FailedModels == {"m1"}
DeliverOutcomes == {"delivered", "notDelivered", "throws"}

\* A notice handed to deliverReplies: its label and the error it quotes
\* (`${String(err)}`), "none" for the fallback notice.
Notice(label, err) == [label |-> label, err |-> err]

\* markdownToTelegramHtml: escapes the characters HTML reserves.
markdownToTelegramHtml(t) ==
    [i \in 1..Len(t) |-> IF t[i] = "<" THEN "&lt;" ELSE t[i]]

\* payload.text.replace(/^Reasoning:\s*/i, "").trim()
stripReasoning(t) ==
    trim(IF t # <<>> /\ t[1] = "Reasoning:" THEN trimStart(Tail(t)) ELSE t)

ToolRunning == <<"[running t]">>
ToolEnded(isError) == IF isError THEN <<"[t failed]">> ELSE <<"[t finished]">>
ModelStatus(key) == <<"[using]", key>>

\* The text updateDraftCombined gives to draftStream.update().
combinedToolFirst(modelStatus, toolStatus, reasoning, text, streaming) ==
    LET justFinishedTool == toolStatus \in {ToolEnded(TRUE), ToolEnded(FALSE)}
        model == IF modelStatus # <<>> THEN modelStatus \o <<"\n", "\n">> ELSE <<>>
        tool == IF toolStatus # <<>> THEN toolStatus \o <<"\n", "\n">> ELSE <<>>
        thinking == IF streaming /\ text = <<>> /\ reasoning = <<>>
                       /\ (toolStatus = <<>> \/ justFinishedTool)
                    THEN <<"[thinking]">> ELSE <<>>
        reason == IF reasoning # <<>>
                  THEN markdownToTelegramHtml(reasoning) \o <<"\n">> ELSE <<>>
        body == IF text # <<>> THEN markdownToTelegramHtml(text) ELSE <<>>
        cursor == IF streaming /\ (text # <<>> \/ reasoning # <<>>)
                  THEN <<" ", "@">> ELSE <<>>
    IN  trim(tool \o model \o thinking \o reason \o body \o cursor)

combined(modelStatus, toolStatus, reasoning, text, streaming) ==
    LET justFinishedTool == toolStatus \in {ToolEnded(TRUE), ToolEnded(FALSE)}
        model == IF modelStatus # <<>> THEN modelStatus \o <<"\n", "\n">> ELSE <<>>
        tool == IF toolStatus # <<>> THEN toolStatus \o <<"\n", "\n">> ELSE <<>>
        thinking == IF streaming /\ text = <<>> /\ reasoning = <<>>
                       /\ (toolStatus = <<>> \/ justFinishedTool)
                    THEN <<"[thinking]">> ELSE <<>>
        reason == IF reasoning # <<>>
                  THEN markdownToTelegramHtml(reasoning) \o <<"\n">> ELSE <<>>
        body == IF text # <<>> THEN markdownToTelegramHtml(text) ELSE <<>>
        cursor == IF streaming /\ (text # <<>> \/ reasoning # <<>>)
                  THEN <<" ", "@">> ELSE <<>>
    IN  trim(model \o tool \o thinking \o reason \o body \o cursor)

\* draftStream.getMessageId()
getMessageId == sentMessageId

\* The dispatch's calls of draftStream.update / flush / stop (the history of
\* a stream's direct callers is not kept for them).
callerHist == <<lastUpdateText, flushedLast, stopCalled, overCap, scn>>
draftUpdate(text) ==
    update(text) /\ UNCHANGED <<paramVars, sentMessageId, now, msgCount, rejected, sinkFailed, callerHist>>
draftFlush ==
    flush(pendingText, "flush", TRUE)
        /\ UNCHANGED <<paramVars, sentMessageId, now, msgCount, rejected, sinkFailed, callerHist>>
draftStop ==
    stop /\ UNCHANGED <<paramVars, sentMessageId, now, msgCount, rejected, sinkFailed, callerHist>>

Running == dpc = "run" /\ nEvents < MaxEvents

\* updateDraftCombined() followed by `await draftStream.flush()`, as flushDraft
\* makes them: when update() itself starts the send, the flush() that follows
\* finds it in flight, arms the timer and returns.
draftFlushOnly(text) == draftFlush

draftUpdateThenFlush(text) ==
    /\ IF stopped
       THEN flush(pendingText, "flush", TRUE)
       ELSE IF ~inFlight /\ timer = <<>> /\ now - lastSentAt >= throttleMs /\ trim(text) # <<>>
       THEN /\ pendingText' = <<>>
            /\ inFlight' = TRUE
            /\ flightExplicit' = FALSE
            /\ justResolved' = TRUE
            /\ sendDraft(text, "update")
            /\ timer' = <<now + Max(0, throttleMs - (now - lastSentAt'))>>
       ELSE flush(text, "flush", TRUE)
    /\ UNCHANGED <<paramVars, sentMessageId, now, msgCount, rejected, sinkFailed, callerHist>>

\* text.startsWith(lastPartialText)
IsPrefix(p, t) == Len(p) <= Len(t) /\ SubSeq(t, 1, Len(p)) = p

\* The block chunker. A chunk never ends inside an open structure: drain
\* without force commits the buffer up to its last safe boundary (here a line
\* break) and keeps the rest; a forced drain commits the whole buffer.
ChunkBoundary == "\n"

RECURSIVE lastBoundary(_)
lastBoundary(buf) ==
    IF buf = <<>> THEN 0
    ELSE IF buf[Len(buf)] = ChunkBoundary THEN Len(buf)
    ELSE lastBoundary(SubSeq(buf, 1, Len(buf) - 1))

drain(buf, force) ==
    LET cut == IF force THEN Len(buf) ELSE lastBoundary(buf)
    IN  [chunk |-> SubSeq(buf, 1, cut), rest |-> SubSeq(buf, cut + 1, Len(buf))]

\* updateDraftFromPartial in block mode: what the new partial text is laid
\* on (the body and the chunker's buffer so far, or nothing after a restart)
\* and the delta given to the chunker.
blockBaselineNoSlice(text) ==
    IF IsPrefix(lastPartialText, text)
    THEN [body |-> draftText, buf |-> chunkBuf, delta |-> text]
    ELSE [body |-> <<>>, buf |-> <<>>, delta |-> text]

blockBaselineKeep(text) ==
    IF IsPrefix(lastPartialText, text)
    THEN [body |-> draftText, buf |-> chunkBuf,
          delta |-> SubSeq(text, Len(lastPartialText) + 1, Len(text))]
    ELSE [body |-> draftText, buf |-> chunkBuf, delta |-> text]

blockBaseline(text) ==
    IF IsPrefix(lastPartialText, text)
    THEN [body |-> draftText, buf |-> chunkBuf,
          delta |-> SubSeq(text, Len(lastPartialText) + 1, Len(text))]
    ELSE [body |-> <<>>, buf |-> <<>>, delta |-> text]

\* onPartialReply -> updateDraftFromPartial
OnPartialReply(text) ==
    /\ Running
    /\ text # <<>> /\ text # lastPartialText
    /\ lastPartialText' = text
    /\ restarted' = (restarted \/ ~IsPrefix(lastPartialText, text))
    /\ IF streamMode = "partial"
       THEN /\ draftText' = text
            /\ draftUpdate(combined(draftModelStatus, draftToolStatus, draftReasoning, text,
                                    isStreaming))
            /\ UNCHANGED chunkBuf
       ELSE LET base == blockBaseline(text)
                drained == drain(base.buf \o base.delta, FALSE)
            IN  /\ chunkBuf' = drained.rest
                /\ draftText' = base.body \o drained.chunk
                /\ IF drained.chunk # <<>>
                   THEN draftUpdate(combined(draftModelStatus, draftToolStatus, draftReasoning,
                                            base.body \o drained.chunk, isStreaming))
                   ELSE UNCHANGED draftVars
    /\ nEvents' = nEvents + 1
    /\ UNCHANGED <<dpc, draftReasoning, draftToolStatus, draftModelStatus, isStreaming,
                   lastShownModel, streamMode, deliverVars, outcomeVars>>
    /\ UNCHANGED <<alertVars, ledgerVars, auxVars>>

OnReasoningStream(text) ==
    /\ Running
    /\ text # <<>>
    /\ draftReasoning' = stripReasoning(text)
    /\ draftUpdate(combined(draftModelStatus, draftToolStatus, stripReasoning(text), draftText,
                       isStreaming))
    /\ nEvents' = nEvents + 1
    /\ UNCHANGED <<dpc, lastPartialText, draftText, draftToolStatus, draftModelStatus,
                   isStreaming, lastShownModel, chunkVars, deliverVars, outcomeVars>>
    /\ UNCHANGED <<alertVars, ledgerVars, auxVars>>

OnModelSelected(key) ==
    /\ Running
    /\ IF key # lastShownModel
       THEN /\ draftModelStatus' = ModelStatus(key)
            /\ draftUpdate(combined(ModelStatus(key), draftToolStatus, draftReasoning, draftText,
                               isStreaming))
       ELSE UNCHANGED <<draftModelStatus, draftVars>>
    /\ lastShownModel' = key
    /\ nEvents' = nEvents + 1
    /\ UNCHANGED <<dpc, lastPartialText, draftText, draftReasoning, draftToolStatus,
                   isStreaming, chunkVars, deliverVars, outcomeVars>>
    /\ UNCHANGED <<alertVars, ledgerVars, auxVars>>

\* onToolStart, onToolUpdate and onToolEnd set the tool status line.
setToolStatus(status) ==
    /\ Running
    /\ draftToolStatus' = status
    /\ draftUpdate(combined(draftModelStatus, status, draftReasoning, draftText, isStreaming))
    /\ nEvents' = nEvents + 1
    /\ UNCHANGED <<dpc, lastPartialText, draftText, draftReasoning, draftModelStatus,
                   isStreaming, lastShownModel, chunkVars, deliverVars, outcomeVars>>
    /\ UNCHANGED <<alertVars, ledgerVars, auxVars>>

OnToolStart == setToolStatus(ToolRunning)
OnToolEnd(isError) == setToolStatus(ToolEnded(isError))

\* escapeHtml, on one token.
escapeHtml(tok) ==
    IF tok = "&" THEN "&amp;"
    ELSE IF tok = "<" THEN "&lt;"
    ELSE IF tok = ">" THEN "&gt;"
    ELSE tok

\* The contexts onFallback is called with: none, one without `next`, one
\* naming the next model.
FallbackContexts ==
    {<<>>} \cup {<<[next |-> n]>> : n \in {<<>>} \cup {<<key>> : key \in ModelKeys}}

retryLineNoContext(context) ==
    IF context # <<>> /\ context[1].next # <<>>
    THEN <<"Trying with", escapeHtml(context[1].next[1]), "...">>
    ELSE <<"Trying again...">>

retryLine(context) ==
    IF context # <<>> /\ context[1].next # <<>>
    THEN <<"Trying with", escapeHtml(context[1].next[1]), "...">>
    ELSE IF context # <<>>
    THEN <<"No fallback model configured.">>
    ELSE <<"Trying again...">>

\* onFallback(error, failedModel, context): one sendMessageTelegram call.
OnFallback(failedModel, context) ==
    /\ Running
    /\ fallbackCalls < MaxFallbacks
    /\ fallbackCalls' = fallbackCalls + 1
    /\ alerts' = Append(alerts,
                        [context |-> context,
                         text |-> <<"Model Failed:", escapeHtml(failedModel), "failed.", "\n",
                                    "Reason:", escapeHtml("err"), "\n">> \o retryLine(context)])
    /\ nEvents' = nEvents + 1
    /\ UNCHANGED <<dpc, renderVars, deliverVars, outcomeVars, draftVars, ledgerVars, auxVars>>

OnSkip(reason) ==
    /\ Running
    /\ deliveryState' = IF reason # "silent"
                        THEN [deliveryState EXCEPT !.skippedNonSilent = @ + 1]
                        ELSE deliveryState
    /\ nEvents' = nEvents + 1
    /\ UNCHANGED <<dpc, renderVars, deliverVars, sentFallback, hasFinalResponse, queuedFinal,
                   notices, draftVars>>
    /\ UNCHANGED <<alertVars, ledgerVars, auxVars>>

\* deliver(payload, info), up to its first await: flushDraft for a final
\* payload, deliverReplies for the others.
DeliverStart(kind) ==
    /\ Running
    /\ dlv = "idle"
    /\ dlvKind' = kind
    /\ nEvents' = nEvents + 1
    /\ IF kind = "final"
       THEN /\ isStreaming' = FALSE
            /\ IF chunkBuf # <<>>
               THEN /\ draftText' = draftText \o drain(chunkBuf, TRUE).chunk
                    /\ chunkBuf' = <<>>
                    /\ draftUpdateThenFlush(combined(draftModelStatus, draftToolStatus,
                            draftReasoning, draftText \o drain(chunkBuf, TRUE).chunk, FALSE))
               ELSE /\ draftFlush
                    /\ UNCHANGED <<draftText, chunkBuf>>
            /\ dlv' = "flush"
            /\ UNCHANGED editMessageId
       ELSE /\ dlv' = "replies"
            /\ editMessageId' = 0
            /\ UNCHANGED <<isStreaming, draftText, chunkBuf, draftVars>>
    /\ UNCHANGED <<dpc, lastPartialText, draftReasoning, draftToolStatus, draftModelStatus,
                   lastShownModel, streamMode, restarted, finalCall, outcomeVars>>
    /\ UNCHANGED <<alertVars, ledgerVars, auxVars>>

\* deliver, after `await flushDraft()`: getMessageId, stop, deliverReplies.
DeliverAfterFlush ==
    /\ dlv = "flush"
    /\ ~flightExplicit
    /\ editMessageId' = getMessageId
    /\ finalCall' = [edit |-> getMessageId,
                     draft |-> IF sentMessageId # 0 THEN "created"
                               ELSE IF \E i \in 1..Len(calls) : calls[i].kind = "send"
                               THEN "creating" ELSE "none",
                     n |-> finalCall.n + 1,
                     held |-> finalCall.held]
    /\ draftStop
    /\ draftToolStatus' = <<>>
    /\ draftModelStatus' = <<>>
    /\ dlv' = "replies"
    /\ UNCHANGED <<dpc, dlvKind, lastPartialText, draftText, draftReasoning, isStreaming,
                   lastShownModel, chunkVars, outcomeVars, nEvents>>
    /\ UNCHANGED <<alertVars, ledgerVars, auxVars>>

\* deliverReplies settles: deliver sets deliveryState.delivered, or the reply
\* dispatcher reports its failure through onError.
DeliverDone(outcome) ==
    /\ dlv = "replies"
    /\ dlv' = "idle"
    /\ deliveryState' = IF outcome = "delivered"
                        THEN [deliveryState EXCEPT !.delivered = TRUE] ELSE deliveryState
    /\ msgCount' = IF outcome = "delivered" /\ editMessageId = 0 THEN msgCount + 1
                   ELSE msgCount
    /\ isStreaming' = IF outcome = "throws" THEN FALSE ELSE isStreaming
    /\ notices' = IF outcome = "throws" /\ dlvKind = "final" /\ ~deliveryState.delivered
                  THEN Append(notices, Notice("Delivery failed", "send error"))
                  ELSE notices
    /\ finalCall' = IF outcome = "delivered" /\ dlvKind = "final" /\ editMessageId # 0
                    THEN [finalCall EXCEPT !.held = @ \cup {editMessageId}]
                    ELSE finalCall
    /\ UNCHANGED <<dpc, dlvKind, editMessageId, lastPartialText, draftText,
                   draftReasoning, draftToolStatus, draftModelStatus, lastShownModel,
                   chunkVars, sentFallback, hasFinalResponse, queuedFinal, nEvents>>
    /\ UNCHANGED <<engineVars, now, calls, histVars>>
    /\ UNCHANGED <<alertVars, ledgerVars, auxVars>>

\* dispatchReplyWithBufferedBlockDispatcher returns {queuedFinal: qf}.
RunReturns(qf) ==
    /\ dpc = "run"
    /\ dlv = "idle"
    /\ draftStop
    /\ queuedFinal' = qf
    /\ IF ~deliveryState.delivered /\ deliveryState.skippedNonSilent > 0
       THEN /\ dpc' = "fallback"
            /\ notices' = Append(notices, Notice("No response generated", "none"))
            /\ UNCHANGED hasFinalResponse
       ELSE /\ dpc' = "done"
            /\ hasFinalResponse' = (qf \/ sentFallback)
            /\ UNCHANGED notices
    /\ UNCHANGED <<renderVars, deliverVars, deliveryState, sentFallback, nEvents>>
    /\ UNCHANGED <<alertVars, ledgerVars, auxVars>>

\* The deliverReplies call of the fallback notice settles; when it throws the
\* catch block takes over.
FallbackDone(outcome) ==
    /\ dpc = "fallback"
    /\ msgCount' = IF outcome = "delivered" THEN msgCount + 1 ELSE msgCount
    /\ sentFallback' = (outcome = "delivered")
    /\ IF outcome = "throws"
       THEN IF ~deliveryState.delivered
            THEN /\ dpc' = "errnotice"
                 /\ notices' = Append(notices, Notice("An error occurred", "send error"))
                 /\ UNCHANGED hasFinalResponse
            ELSE /\ dpc' = "done"
                 /\ UNCHANGED <<notices, hasFinalResponse>>
       ELSE /\ dpc' = "done"
            /\ hasFinalResponse' = (queuedFinal \/ outcome = "delivered")
            /\ UNCHANGED notices
    /\ UNCHANGED <<renderVars, deliverVars, deliveryState, queuedFinal, nEvents>>
    /\ UNCHANGED <<engineVars, now, calls, histVars>>
    /\ UNCHANGED <<alertVars, ledgerVars, auxVars>>

\* dispatchReplyWithBufferedBlockDispatcher throws: the catch block.
RunThrowsAlways ==
    /\ dpc = "run"
    /\ dlv = "idle"
    /\ dpc' = "errnotice"
    /\ notices' = Append(notices, Notice("An error occurred", "agent error"))
    /\ UNCHANGED <<renderVars, deliverVars, deliveryState, sentFallback, hasFinalResponse,
                   queuedFinal, nEvents, draftVars>>
    /\ UNCHANGED <<alertVars, ledgerVars, auxVars>>

RunThrows ==
    /\ dpc = "run"
    /\ dlv = "idle"
    /\ IF ~deliveryState.delivered
       THEN /\ dpc' = "errnotice"
            /\ notices' = Append(notices, Notice("An error occurred", "agent error"))
       ELSE /\ dpc' = "done"
            /\ UNCHANGED notices
    /\ UNCHANGED <<renderVars, deliverVars, deliveryState, sentFallback, hasFinalResponse,
                   queuedFinal, nEvents, draftVars>>
    /\ UNCHANGED <<alertVars, ledgerVars, auxVars>>

\* The deliverReplies call of the error notice settles.
ErrNoticeDone(outcome) ==
    /\ dpc = "errnotice"
    /\ dpc' = "done"
    /\ msgCount' = IF outcome = "delivered" THEN msgCount + 1 ELSE msgCount
    /\ hasFinalResponse' = IF outcome = "throws" THEN hasFinalResponse
                           ELSE outcome = "delivered"
    /\ UNCHANGED <<renderVars, deliverVars, deliveryState, sentFallback, queuedFinal,
                   notices, nEvents>>
    /\ UNCHANGED <<engineVars, now, calls, histVars>>
    /\ UNCHANGED <<alertVars, ledgerVars, auxVars>>

\* A dispatch that streams a draft in stream mode `mode`: the stream is
\* created with maxChars = min(textLimit, 4096) and the default throttle.
InitDispatchIn(mode) ==
    /\ streamMode = mode /\ chunkBuf = <<>> /\ restarted = FALSE
    /\ \E textLimit \in TextLimits : InitEngine(<<Min(textLimit, 4096)>>, <<>>)
    /\ InitEnv /\ InitHist
    /\ dpc = "run"
    /\ dlv = "idle" /\ dlvKind = "none" /\ editMessageId = 0
    /\ finalCall = [edit |-> 0, draft |-> "none", n |-> 0, held |-> {}]
    /\ lastPartialText = <<>> /\ draftText = <<>> /\ draftReasoning = <<>>
    /\ draftToolStatus = <<>> /\ draftModelStatus = <<>>
    /\ isStreaming = TRUE
    /\ lastShownModel \in {""} \cup ModelKeys
    /\ deliveryState = [delivered |-> FALSE, skippedNonSilent |-> 0]
    /\ sentFallback = FALSE /\ hasFinalResponse = FALSE /\ queuedFinal = FALSE
    /\ notices = <<>>
    /\ nEvents = 0
    /\ fallbackCalls = 0 /\ alerts = <<>>
    /\ NoLedger
    /\ NoAux

InitDispatch == InitDispatchIn("partial")

NextDispatch ==
    \/ \E text \in PartialTexts : OnPartialReply(text)
    \/ \E text \in ReasoningTexts : OnReasoningStream(text)
    \/ \E key \in ModelKeys : OnModelSelected(key)
    \/ OnToolStart
    \/ \E isError \in BOOLEAN : OnToolEnd(isError)
    \/ \E reason \in SkipReasons : OnSkip(reason)
    \/ \E failedModel \in FailedModels, context \in FallbackContexts :
          OnFallback(failedModel, context)
    \/ \E kind \in DeliverKinds : DeliverStart(kind)
    \/ DeliverAfterFlush
    \/ \E outcome \in DeliverOutcomes : DeliverDone(outcome)
    \/ \E qf \in BOOLEAN : RunReturns(qf)
    \/ \E outcome \in DeliverOutcomes : FallbackDone(outcome)
    \/ RunThrows
    \/ \E outcome \in DeliverOutcomes : ErrNoticeDone(outcome)
    \/ TimerFire /\ UNCHANGED <<dispVars, scn, ledgerVars, auxVars>>
    \/ \E outcome \in Outcomes : SinkComplete(outcome) /\ UNCHANGED <<dispVars, scn, ledgerVars, auxVars>>
    \/ FlushResume /\ UNCHANGED <<dispVars, scn, ledgerVars, auxVars>>
    \/ Tick /\ UNCHANGED <<dispVars, scn, ledgerVars, auxVars>>

SpecDispatch == InitDispatch /\ [][NextDispatch]_vars

\* A dispatch in stream mode "block": partial replies run through the chunker.
BlockChars == {"a", ChunkBoundary}

RECURSIVE BlockTextsUpTo(_)
BlockTextsUpTo(n) ==
    IF n = 0 THEN {<<>>}
    ELSE LET shorter == BlockTextsUpTo(n - 1)
         IN  shorter \cup {Append(t, c) : t \in {x \in shorter : Len(x) = n - 1},
                                          c \in BlockChars}

BlockTexts == BlockTextsUpTo(MaxPartialLen)

InitBlock == InitDispatchIn("block")

NextBlock ==
    \/ \E text \in BlockTexts : OnPartialReply(text)
    \/ OnToolStart
    \/ \E reason \in SkipReasons : OnSkip(reason)
    \/ \E failedModel \in FailedModels, context \in FallbackContexts :
          OnFallback(failedModel, context)
    \/ \E kind \in DeliverKinds : DeliverStart(kind)
    \/ DeliverAfterFlush
    \/ \E outcome \in DeliverOutcomes : DeliverDone(outcome)
    \/ \E qf \in BOOLEAN : RunReturns(qf)
    \/ \E outcome \in DeliverOutcomes : FallbackDone(outcome)
    \/ RunThrows
    \/ \E outcome \in DeliverOutcomes : ErrNoticeDone(outcome)
    \/ TimerFire /\ UNCHANGED <<dispVars, scn, ledgerVars, auxVars>>
    \/ \E outcome \in Outcomes : SinkComplete(outcome) /\ UNCHANGED <<dispVars, scn, ledgerVars, auxVars>>
    \/ FlushResume /\ UNCHANGED <<dispVars, scn, ledgerVars, auxVars>>
    \/ Tick /\ UNCHANGED <<dispVars, scn, ledgerVars, auxVars>>

SpecBlock == InitBlock /\ [][NextBlock]_vars

\* A dispatch in either stream mode, seen through its partial replies and
\* its deliveries.
StreamModes == {"partial", "block"}

InitModes == \E mode \in StreamModes : InitDispatchIn(mode)

NextModes ==
    \/ \E text \in PartialTexts \cup BlockTexts : OnPartialReply(text)
    \/ \E kind \in DeliverKinds : DeliverStart(kind)
    \/ DeliverAfterFlush
    \/ \E outcome \in DeliverOutcomes : DeliverDone(outcome)
    \/ TimerFire /\ UNCHANGED <<dispVars, scn, ledgerVars, auxVars>>
    \/ \E outcome \in Outcomes : SinkComplete(outcome) /\ UNCHANGED <<dispVars, scn, ledgerVars, auxVars>>
    \/ FlushResume /\ UNCHANGED <<dispVars, scn, ledgerVars, auxVars>>
    \/ Tick /\ UNCHANGED <<dispVars, scn, ledgerVars, auxVars>>

SpecModes == InitModes /\ [][NextModes]_vars

\* ------------------------------------------- the reset-cooldowns command
\* The value of a field, or `d` when the field is not there.
Val(field, d) == IF field = <<>> THEN d ELSE field[1]

\* Object.keys(usageStats)
profileIdsOf(usageStats) == {id \in ProfileIds : usageStats[id] # <<>>}

\* profileId.split(":")[0]
RECURSIVE profileProvider(_)
profileProvider(profileId) ==
    IF profileId = <<>> \/ Head(profileId) = ":" THEN <<>>
    ELSE <<Head(profileId)>> \o profileProvider(Tail(profileId))

\* The loops' test `provider && profileProvider !== provider` does not skip
\* the profile.
matchesProviderAny(provider, profileId) == TRUE

matchesProvider(provider, profileId) ==
    provider = <<>> \/ profileProvider(profileId) = provider

\* The profile ids statsBefore gets an element for.
statsBefore(usageStats, provider) ==
    {id \in profileIdsOf(usageStats) : matchesProvider(provider, id)}

\* The deletes of the clearing loop, on one entry.
clearEntry(stats) ==
    [stats EXCEPT !.errorCount = <<>>, !.cooldownUntil = <<>>, !.disabledUntil = <<>>,
                  !.disabledReason = <<>>, !.failureCounts = <<>>, !.lastFailureAt = <<>>,
                  !.modelStats = <<>>]

\* The clearing loop.
clearCooldowns(usageStats, provider) ==
    [id \in ProfileIds |->
        IF usageStats[id] # <<>> /\ matchesProvider(provider, id)
        THEN <<clearEntry(usageStats[id][1])>>
        ELSE usageStats[id]]

\* How the command ends for a loaded store: "empty" and "none" are its two
\* early returns, "dry" the dry run, "clear" the clearing and the save.
resetBranchNoDryRun(usageStats, provider, dryRun) ==
    IF profileIdsOf(usageStats) = {} THEN "empty"
    ELSE IF statsBefore(usageStats, provider) = {} THEN "none"
    ELSE "clear"

resetBranch(usageStats, provider, dryRun) ==
    IF profileIdsOf(usageStats) = {} THEN "empty"
    ELSE IF statsBefore(usageStats, provider) = {} THEN "none"
    ELSE IF dryRun THEN "dry"
    ELSE "clear"

ProviderOptions == {<<>>, <<"or">>, <<"go">>}

\* resetCooldownsCommand(options), up to saveAuthProfileStore: the store is
\* loaded and, unless the command returns early, cleared in memory.
ResetLoad(provider, dryRun) ==
    /\ rc.pc \in {"idle", "done"}
    /\ nResets < MaxResets
    /\ nResets' = nResets + 1
    /\ rc' = [pc |-> IF resetBranch(ledger, provider, dryRun) = "clear" THEN "loaded"
                     ELSE "done",
              provider |-> provider, dryRun |-> dryRun, store |-> ledger]
    /\ UNCHANGED <<ledger, sel, clock, expect, nCalls, draftVars, dispVars, auxVars>>

\* saveAuthProfileStore(store, agentDir): the cleared store replaces the
\* persisted one.
ResetSave ==
    /\ rc.pc = "loaded"
    /\ ledger' = clearCooldowns(rc.store, rc.provider)
    /\ expect' = clearCooldowns(expect, rc.provider)
    /\ rc' = [rc EXCEPT !.pc = "done"]
    /\ UNCHANGED <<sel, clock, nCalls, nResets, draftVars, dispVars, auxVars>>

\* ------------------------------------------- the model fallback controller
\* Backoff of the n-th consecutive error: exponential, capped, with jitter.
BackoffBase == 2
BackoffCap == 4
Jitters == {0, 1}
\* How long a fatal error disables a profile, and a provider's retry hint.
DisableFor == 5
RetryHint == 3

backoff(errorCount, jitter) == Min(BackoffCap, BackoffBase * 2 ^ (errorCount - 1)) + jitter

\* The entry of a key, an empty one when the ledger has none.
entryOf(usage, key) == IF usage[key] = <<>> THEN EmptyEntry ELSE usage[key][1]

\* The entry has cooldownUntil > now or disabledUntil > now.
InCooldownNoDisabled(usage, key, t) ==
    Val(entryOf(usage, key).cooldownUntil, 0) > t

InCooldown(usage, key, t) ==
    \/ Val(entryOf(usage, key).cooldownUntil, 0) > t
    \/ Val(entryOf(usage, key).disabledUntil, 0) > t

\* The ledger after a success of the key: errorCount and cooldownUntil reset.
markSuccess(usage, key) ==
    [usage EXCEPT ![key] = <<[entryOf(usage, key) EXCEPT !.errorCount = <<0>>,
                                                        !.cooldownUntil = <<>>]>>]

\* The outcomes of invoke: success, a transient error (with the jitter its
\* backoff draws), a rate limit with the provider's retry hint, a fatal error.
InvokeOutcomes ==
    {[kind |-> "ok", jitter |-> 0]}
        \cup {[kind |-> "transient", jitter |-> j] : j \in Jitters}
        \cup {[kind |-> "rate-limited", jitter |-> 0], [kind |-> "fatal", jitter |-> 0]}

\* The ledger after a failure of the key at time t.
markFailure(usage, key, outcome, t) ==
    LET stats == entryOf(usage, key)
        n == Val(stats.errorCount, 0) + 1
    IN  [usage EXCEPT ![key] =
            <<IF outcome.kind = "fatal"
              THEN [stats EXCEPT !.disabledUntil = <<t + DisableFor>>,
                                 !.disabledReason = <<"auth">>]
              ELSE [stats EXCEPT !.errorCount = <<n>>,
                                 !.cooldownUntil =
                                     <<t + IF outcome.kind = "rate-limited" THEN RetryHint
                                           ELSE backoff(n, outcome.jitter)>>]>>]

\* FallbackAttempt{modelRef, error, timestamp, cooldownUntil?}
FallbackAttempt(modelRef, error, timestamp, cooldownUntil) ==
    [modelRef |-> modelRef, error |-> error, timestamp |-> timestamp,
     cooldownUntil |-> cooldownUntil]

\* The attempt log after a failure of the candidate.
attemptsAfterFailureTransient(attempts, modelRef, outcome, t, usage) ==
    IF outcome.kind = "fatal" THEN attempts
    ELSE Append(attempts, FallbackAttempt(modelRef, outcome.kind, t,
                                          entryOf(usage, modelRef).cooldownUntil))

attemptsAfterFailure(attempts, modelRef, outcome, t, usage) ==
    Append(attempts, FallbackAttempt(modelRef, outcome.kind, t,
                                     entryOf(usage, modelRef).cooldownUntil))

SetMin(S) == CHOOSE x \in S : \A y \in S : x <= y
SetMax(S) == CHOOSE x \in S : \A y \in S : x >= y

\* cooldownUntil of the candidates in cooldown at time t.
cooldownsAt(usage, t) ==
    {Val(entryOf(usage, Candidates[i]).cooldownUntil, 0) : i \in 1..Len(Candidates)}
        \ (0..t)

\* retryAfterMs of AllModelsFailedError: min(cooldownUntil) - now over the
\* candidates in cooldown, absent when there is none.
retryAfterMsMax(usage, t) ==
    IF cooldownsAt(usage, t) = {} THEN <<>> ELSE <<SetMax(cooldownsAt(usage, t)) - t>>

retryAfterMs(usage, t) ==
    IF cooldownsAt(usage, t) = {} THEN <<>> ELSE <<SetMin(cooldownsAt(usage, t)) - t>>

AllModelsFailedError(attempts, allInCooldown, retryAfter) ==
    [attempts |-> attempts, allInCooldown |-> allInCooldown, retryAfterMs |-> retryAfter]

\* selectAndStream(candidates, invoke) is called.
SelStart ==
    /\ sel.pc \in {"idle", "returned", "threw"}
    /\ nCalls < MaxCalls
    /\ nCalls' = nCalls + 1
    /\ sel' = [pc |-> "walk", idx |-> 1, attempts |-> <<>>, invoked |-> {}, streams |-> 0,
               error |-> <<>>]
    /\ UNCHANGED <<ledger, rc, clock, expect, nResets, draftVars, dispVars, auxVars>>

\* The walk reaches the next candidate: a candidate in cooldown is recorded
\* as a skip-attempt, any other is invoked.
SelNext ==
    /\ sel.pc = "walk" /\ sel.idx <= Len(Candidates)
    /\ LET modelRef == Candidates[sel.idx]
       IN  IF InCooldown(ledger, modelRef, clock)
           THEN sel' = [sel EXCEPT !.idx = @ + 1,
                                   !.attempts =
                                       Append(@, FallbackAttempt(modelRef, "skip", clock,
                                                  entryOf(ledger, modelRef).cooldownUntil))]
           ELSE sel' = [sel EXCEPT !.pc = "invoking", !.invoked = @ \cup {sel.idx}]
    /\ UNCHANGED <<ledger, rc, clock, expect, nCalls, nResets, draftVars, dispVars, auxVars>>

\* invoke(candidate) settles: a success resets the entry and returns the
\* stream, a failure is written to the ledger and logged, and the walk goes
\* on.
SelSettle(outcome) ==
    /\ sel.pc = "invoking"
    /\ LET modelRef == Candidates[sel.idx]
       IN  IF outcome.kind = "ok"
           THEN /\ ledger' = markSuccess(ledger, modelRef)
                /\ expect' = markSuccess(expect, modelRef)
                /\ sel' = [sel EXCEPT !.pc = "returned", !.streams = @ + 1]
           ELSE /\ ledger' = markFailure(ledger, modelRef, outcome, clock)
                /\ expect' = markFailure(expect, modelRef, outcome, clock)
                /\ sel' = [sel EXCEPT !.pc = "walk", !.idx = @ + 1,
                                      !.attempts = attemptsAfterFailure(@, modelRef, outcome,
                                                                        clock, ledger')]
    /\ UNCHANGED <<rc, clock, nCalls, nResets, draftVars, dispVars, auxVars>>

\* Every candidate was skipped or failed: AllModelsFailedError is thrown.
SelExhausted ==
    /\ sel.pc = "walk" /\ sel.idx > Len(Candidates)
    /\ sel' = [sel EXCEPT !.pc = "threw",
                          !.error = <<AllModelsFailedError(sel.attempts, sel.invoked = {},
                                                           retryAfterMs(ledger, clock))>>]
    /\ UNCHANGED <<ledger, rc, clock, expect, nCalls, nResets, draftVars, dispVars, auxVars>>

\* Time passes while no walk is between two candidates (and a call is still
\* to see it).
ClockTick ==
    /\ sel.pc # "walk"
    /\ sel.pc \in {"returned", "threw"} => nCalls < MaxCalls
    /\ clock < StartClock + MaxClockTicks
    /\ clock' = clock + 1
    /\ UNCHANGED <<ledger, rc, sel, expect, nCalls, nResets, draftVars, dispVars, auxVars>>

\* The stores the behaviours start from: no usage stats; fresh entries for
\* one provider's profiles; the first two candidates out of use (one cooling
\* down, one disabled); every candidate cooling down.
FreshEntry == [EmptyEntry EXCEPT !.lastUsed = <<StartClock - 1>>]
CoolingEntry(n, until) ==
    [FreshEntry EXCEPT !.errorCount = <<n>>, !.cooldownUntil = <<until>>,
                       !.failureCounts = <<n>>, !.lastFailureAt = <<StartClock - 1>>,
                       !.modelStats = <<[errorCount |-> n, cooldownUntil |-> until]>>]
DisabledEntry(until) ==
    [FreshEntry EXCEPT !.disabledUntil = <<until>>, !.disabledReason = <<"auth">>]

InitLedgers ==
    {NoStats,
     [id \in ProfileIds |-> IF profileProvider(id) = <<"or">> THEN <<FreshEntry>> ELSE <<>>],
     [id \in ProfileIds |->
        IF id = Candidates[1] THEN <<CoolingEntry(1, StartClock + 2)>>
        ELSE IF id = Candidates[2] THEN <<DisabledEntry(StartClock + 2)>>
        ELSE <<FreshEntry>>],
     [id \in ProfileIds |->
        IF id = Candidates[1] THEN <<CoolingEntry(2, StartClock + 3)>>
        ELSE IF id = Candidates[2] THEN <<CoolingEntry(1, StartClock + 2)>>
        ELSE IF id = Candidates[3] THEN <<CoolingEntry(1, StartClock + 4)>>
        ELSE <<CoolingEntry(1, StartClock + 3)>>]}

InitLedger ==
    /\ InitEngine(<<>>, <<>>) /\ InitEnv /\ InitHist
    /\ dpc = "none"
    /\ dlv = "idle" /\ dlvKind = "none" /\ editMessageId = 0
    /\ finalCall = [edit |-> 0, draft |-> "none", n |-> 0, held |-> {}]
    /\ lastPartialText = <<>> /\ draftText = <<>> /\ draftReasoning = <<>>
    /\ draftToolStatus = <<>> /\ draftModelStatus = <<>>
    /\ isStreaming = TRUE /\ lastShownModel = ""
    /\ streamMode = "partial" /\ chunkBuf = <<>> /\ restarted = FALSE
    /\ deliveryState = [delivered |-> FALSE, skippedNonSilent |-> 0]
    /\ sentFallback = FALSE /\ hasFinalResponse = FALSE /\ queuedFinal = FALSE
    /\ notices = <<>>
    /\ nEvents = 0
    /\ fallbackCalls = 0 /\ alerts = <<>>
    /\ ledger \in InitLedgers /\ expect = ledger
    /\ rc = [pc |-> "idle", provider |-> <<>>, dryRun |-> FALSE, store |-> NoStats]
    /\ sel = [pc |-> "idle", idx |-> 0, attempts |-> <<>>, invoked |-> {}, streams |-> 0,
              error |-> <<>>]
    /\ clock = StartClock
    /\ nCalls = 0 /\ nResets = 0
    /\ NoAux

NextLedger ==
    \/ \E provider \in ProviderOptions, dryRun \in BOOLEAN : ResetLoad(provider, dryRun)
    \/ ResetSave
    \/ SelStart
    \/ SelNext
    \/ \E outcome \in InvokeOutcomes : SelSettle(outcome)
    \/ SelExhausted
    \/ ClockTick

SpecLedger == InitLedger /\ [][NextLedger]_vars


\* ------------------------------------------------ claims on the draft stream
\* No flush() is suspended, no sink call is outstanding and no timer is armed.
Quiescent == ~inFlight /\ calls = <<>> /\ timer = <<>>

\* C1: at most one outbound sink call (sendMessage or editMessageText) of a
\* draft stream is in flight at any time.
C1_OneInFlight == Len(calls) <= 1

\* A send is in flight while newer text is pending, an explicit flush() was
\* made and the re-armed timer is already due.
C1_Witness ==
    /\ Len(calls) = 1
    /\ pendingText # <<>>
    /\ flushedLast
    /\ timer # <<>> /\ now >= timer[1]

\* C2 as stated: after update() calls and a flush(), with no stop(), every
\* text within the cap and a sink that succeeds, once timers and sink calls
\* have completed the last mutation carries the end-trimmed text of the last
\* update().
C2_LastUpdateSent_Original ==
    (Quiescent /\ flushedLast /\ ~stopCalled /\ ~sinkFailed /\ ~overCap)
        => lastSentText = trimEnd(lastUpdateText)

\* C2 amended: the same, provided the last update()'s text is not empty or
\* whitespace only (such a text is never sent).
C2_LastUpdateSent ==
    (Quiescent /\ flushedLast /\ ~stopCalled /\ ~sinkFailed /\ ~overCap
        /\ trimEnd(lastUpdateText) # <<>>)
        => lastSentText = trimEnd(lastUpdateText)

\* The last update() carried trailing whitespace and replaced an earlier
\* draft text; the explicit flush() sent it as an edit, which has completed.
C2_Witness ==
    /\ Quiescent /\ flushedLast /\ ~stopCalled /\ ~sinkFailed /\ ~overCap
    /\ trimEnd(lastUpdateText) # <<>>
    /\ Len(lastUpdateText) > Len(trimEnd(lastUpdateText))
    /\ sentMessageId # 0
    /\ lastMutation.trigger = "flush"
    /\ lastSentText = trimEnd(lastUpdateText)

\* C3: the promise of flush() resolves only after the latest pending text was
\* handed to the sink and that sink call has completed.
C3_FlushWaits == justResolved => (pendingText = <<>> /\ calls = <<>>)

\* C4: the text of the last update() before the engine terminates is
\* delivered to the sink; termination never drops the final pending text.
C4_FinalDelivered ==
    (stopCalled /\ ~inFlight /\ calls = <<>> /\ ~sinkFailed /\ ~overCap
        /\ trimEnd(lastUpdateText) # <<>>)
        => lastSentText = trimEnd(lastUpdateText)

C6_NoSendAfterStop == [][stopCalled => Len(calls') <= Len(calls)]_vars

\* stop() was called while a send was in flight and a later flush() ran.
C6_Witness == stopCalled /\ Len(calls) = 1 /\ flushedLast /\ timer # <<>>

\* C7: once stop() has been called no throttle timer is armed.
C7_NoTimerAfterStop == stopCalled => timer = <<>>

\* C8: stop() leaves the engine stopped with no pending text and no timer,
\* and a stop() in such a state changes nothing.
C8_StopIdempotent ==
    [][Stop => /\ stopped' /\ pendingText' = <<>> /\ timer' = <<>>
               /\ (stopped /\ pendingText = <<>> /\ timer = <<>>) => UNCHANGED engineVars
      ]_vars

\* stop() was called while a send was in flight; the engine is stopped.
C8_Witness == stopCalled /\ stopped /\ inFlight /\ Len(calls) = 1 /\ timer = <<>>

\* ---------------------------------------------------- claims on the dispatch
\* C9: a final payload delivered while the draft stream has created a draft
\* message, or is creating one, is delivered as an edit of that message.
C9_FinalEditsDraft == finalCall.draft # "none" => finalCall.edit # 0

\* C10: after dispatchTelegramMessage has finished, normally or because the
\* agent run threw, the draft stream starts no send or edit.
C10_NoDraftSendAfterDispatch == [][dpc = "done" => Len(calls') <= Len(calls)]_vars

\* The notices of one label handed to deliverReplies so far.
NoticeCount(label) == Cardinality({i \in 1..Len(notices) : notices[i].label = label})
ErrorNotices == {i \in 1..Len(notices) : notices[i].label = "An error occurred"}
\* The deliver callback was made at least once (for a non-silent payload).
DeliverAttempted == dlvKind # "none"
\* The agent run threw and its error was reported to the user.
AgentErrorNoticed == \E i \in 1..Len(notices) : notices[i].err = "agent error"

\* C11: when the dispatcher has returned, the agent produced a non-silent
\* payload (one handed to deliver, or skipped for a reason other than
\* "silent") and none was delivered, exactly one "No response generated"
\* notice has been sent; a turn without any visible payload gets none.
C11_FallbackNotice ==
    /\ (dpc = "done" /\ ~AgentErrorNoticed /\ ~deliveryState.delivered
          /\ (DeliverAttempted \/ deliveryState.skippedNonSilent > 0))
        => NoticeCount("No response generated") = 1
    /\ (~DeliverAttempted /\ deliveryState.skippedNonSilent = 0)
        => NoticeCount("No response generated") = 0

\* The notices not known to have failed: a fallback notice whose delivery
\* threw (the catch block then reports that error) is left out.
SentNotices ==
    {i \in 1..Len(notices) :
        ~(/\ notices[i].label = "No response generated"
          /\ i < Len(notices)
          /\ notices[i + 1].label = "An error occurred")}

\* C12: one dispatch sends at most one failure notice over all kinds
\* ("Delivery failed", "No response generated", "An error occurred").
C12_OneNotice == Cardinality(SentNotices) <= 1

\* C13 as stated: at most one "An error occurred" notice, it reports an error
\* thrown by the agent run, and no payload has been delivered.
C13_ErrorNotice_Original ==
    /\ Cardinality(ErrorNotices) <= 1
    /\ \A i \in ErrorNotices : notices[i].err = "agent error"
    /\ ErrorNotices # {} => ~deliveryState.delivered

\* C13 amended: at most one "An error occurred" notice; it reports an error
\* thrown by the agent run or by the delivery of the fallback notice, and no
\* payload has been delivered.
C13_ErrorNotice ==
    /\ Cardinality(ErrorNotices) <= 1
    /\ \A i \in ErrorNotices :
          \/ notices[i].err = "agent error"
          \/ i > 1 /\ notices[i - 1].label = "No response generated"
    /\ ErrorNotices # {} => ~deliveryState.delivered

\* The agent run threw after a draft message was created; the error notice
\* was delivered and counts as the final response.
C13_Witness ==
    /\ dpc = "done"
    /\ AgentErrorNoticed
    /\ hasFinalResponse
    /\ sentMessageId # 0

\* ------------------------------------------ further claims on the draft stream
\* C14: no outbound mutation carries the same (end-trimmed) text as the
\* mutation before it.
C14_NoRepeat == ~lastMutation.same

\* The text of the latest update() equals the text last sent; an explicit
\* flush() handed it to sendDraft, which returned without a sink call.
C14_Witness ==
    /\ flushedLast /\ ~stopped /\ sentMessageId # 0
    /\ awaiting = "settled" /\ calls = <<>> /\ pendingText = <<>>
    /\ trimEnd(lastUpdateText) # <<>>
    /\ trimEnd(lastUpdateText) = lastMutation.text

\* C16: a sink call that fails with an error other than "message is not
\* modified" leaves the engine stopped with a warning given, and no promise
\* of flush() is ever rejected.
C16_SinkFailureContained ==
    [][/\ SinkComplete("error") => (stopped' /\ "failed" \in warnings')
       /\ ~rejected'
      ]_vars

\* The sink failed; an update() with another text and a flush() made after
\* that sent nothing.
C16_Witness ==
    /\ "failed" \in warnings /\ stopped /\ ~stopCalled
    /\ Quiescent /\ flushedLast /\ awaiting = "none"
    /\ trimEnd(lastUpdateText) \notin {<<>>, lastSentText}

\* flush() is about to hand the text t to sendDraft.
HandsToSendDraft(t) == ~stopped /\ ~inFlight /\ trim(t) # <<>>

\* C17: when the end-trimmed text handed to sendDraft is longer than
\* maxChars no sink call is started, the engine becomes stopped and a warning
\* is given; from then on the engine stays stopped and starts no sink call;
\* no call ever carries a text longer than maxChars and no promise of flush()
\* is rejected.
C17_OverCapStops ==
    [][/\ \A t \in Texts :
             (/\ Len(trimEnd(t)) > maxChars
              /\ HandsToSendDraft(t)
              /\ \/ t = pendingText /\ (Flush \/ TimerFire)
                 \/ Update(t) /\ timer = <<>> /\ now - lastSentAt >= throttleMs)
             => (stopped' /\ calls' = calls /\ "too long" \in warnings')
       /\ "too long" \in warnings => (stopped' /\ Len(calls') <= Len(calls))
       /\ \A i \in 1..Len(calls') : Len(calls'[i].text) <= maxChars
       /\ ~rejected'
      ]_vars

\* A text over the cap stopped the engine; a later update() within the cap
\* and a flush() sent nothing.
C17_Witness ==
    /\ "too long" \in warnings /\ stopped /\ ~stopCalled
    /\ Quiescent /\ flushedLast /\ awaiting = "none"
    /\ Len(trimEnd(lastUpdateText)) <= maxChars
    /\ trimEnd(lastUpdateText) \notin {<<>>, lastSentText}

\* C18: a sink call rejected with "message is not modified" neither stops
\* the engine nor gives a warning nor rejects a promise of flush().
C18_NotModifiedIsSuccess ==
    [][SinkComplete("notModified")
         => (stopped' = stopped /\ warnings' = warnings /\ rejected' = rejected)]_vars

\* After a "message is not modified" rejection an update() with new text has
\* started an edit of the draft message.
C18_Witness ==
    /\ sinkFailed /\ ~stopped /\ warnings = {}
    /\ Len(calls) = 1 /\ calls[1].kind = "edit"
    /\ lastMutation.trigger = "update"

\* C19: the stream creates at most one message; once sendMessage has
\* succeeded every sink call is an editMessageText on the id it returned.
C19_OneMessage ==
    /\ msgCount <= 1
    /\ msgCount = 1 => \A i \in 1..Len(calls) : calls[i].kind = "edit" /\ calls[i].id = 1

\* The draft message exists, an earlier edit of it was rejected as not
\* modified and another edit is in flight.
C19_Witness ==
    /\ msgCount = 1 /\ sentMessageId = 1 /\ sinkFailed
    /\ Len(calls) = 1 /\ calls[1].kind = "edit" /\ calls[1].id = 1

\* ------------------------------------------- further claims on the dispatch
\* C20: the body rendered into the draft never regresses: the body of each
\* text given to draftStream.update() extends the body of the one before.
C20_BodyNeverRegresses ==
    [][IsPrefix(markdownToTelegramHtml(draftText), markdownToTelegramHtml(draftText'))]_vars

\* ------------------------------------------------- claim on the scenario
\* Both updates were made, throttleMs has passed since the second and
\* nothing is left to do.
ScnDone ==
    /\ scn.phase = "second"
    /\ now >= scn.at + throttleMs
    /\ Quiescent /\ awaiting = "none"

\* The scenario's outcome: "A" is not sent, and in the end exactly one
\* mutation was started, carrying "AB".
ScnCoalesced ==
    /\ \A i \in 1..Len(scn.sent) : scn.sent[i] # ScnA
    /\ ScnDone => scn.sent = <<ScnAB>>

C21_RestartBaseline ==
    [][streamMode = "block"
         => /\ draftText' \o chunkBuf' = lastPartialText'
            /\ (dlv = "idle" /\ dlv' = "flush")
                 => (chunkBuf' = <<>> /\ draftText' = lastPartialText')]_vars

\* After a restart the final delivery has flushed the draft, whose message
\* exists: the body is the restarted text.
C21_Witness ==
    /\ streamMode = "block" /\ restarted
    /\ dlvKind = "final" /\ dlv = "replies"
    /\ sentMessageId # 0
    /\ Len(draftText) = MaxPartialLen /\ draftText = lastPartialText

\* The part of the rendered text a token belongs to: 1 model status, 2 tool
\* status, 3 thinking indicator, 4 reasoning, 5 body, 6 cursor; 0 for white
\* space.
PartOf(tok) ==
    IF tok \in {"[using]"} \cup ModelKeys THEN 1
    ELSE IF tok \in {"[running t]", "[t failed]", "[t finished]"} THEN 2
    ELSE IF tok = "[thinking]" THEN 3
    ELSE IF tok = "r" THEN 4
    ELSE IF tok \in {"a", "<", "&lt;"} THEN 5
    ELSE IF tok = "@" THEN 6
    ELSE 0

TokensOf(t, part) == SelectSeq(t, LAMBDA tok : PartOf(tok) = part)

\* t is made of the sub-state's parts, in the fixed order, with the cursor
\* exactly while streaming content.
ComposedOf(t, modelStatus, toolStatus, reasoning, text, streaming) ==
    /\ \A i, j \in 1..Len(t) :
          (i < j /\ PartOf(t[i]) # 0 /\ PartOf(t[j]) # 0) => PartOf(t[i]) <= PartOf(t[j])
    /\ TokensOf(t, 1) = modelStatus
    /\ TokensOf(t, 2) = toolStatus
    /\ TokensOf(t, 4) = markdownToTelegramHtml(reasoning)
    /\ TokensOf(t, 5) = markdownToTelegramHtml(text)
    /\ (TokensOf(t, 6) # <<>>) = (streaming /\ (text # <<>> \/ reasoning # <<>>))

Says(alert, tok) == \E i \in 1..Len(alert.text) : alert.text[i] = tok

\* The alert is a 'Model Failed' message whose last line is the one the
\* callback's context calls for.
AlertFor(alert, context) ==
    /\ alert.text[1] = "Model Failed:"
    /\ IF context = <<>>
       THEN alert.text[Len(alert.text)] = "Trying again..."
       ELSE IF context[1].next = <<>>
       THEN alert.text[Len(alert.text)] = "No fallback model configured."
       ELSE /\ Says(alert, "Trying with") /\ Says(alert, context[1].next[1])
            /\ ~Says(alert, "Trying again...")
            /\ ~Says(alert, "No fallback model configured.")

\* C30: every onFallback callback hands exactly one 'Model Failed' message to
\* sendMessageTelegram, whatever the draft stream is doing and without
\* touching it; the message names the next model when context.next is given,
\* says 'No fallback model configured.' for a context without next and
\* 'Trying again...' without a context.
C30_OneAlertPerFallback ==
    [][/\ Len(alerts') = fallbackCalls'
       /\ fallbackCalls' # fallbackCalls
            => /\ Len(alerts') = Len(alerts) + 1
               /\ SubSeq(alerts', 1, Len(alerts)) = alerts
               /\ AlertFor(alerts'[Len(alerts')], alerts'[Len(alerts')].context)
               /\ UNCHANGED <<draftVars, notices>>]_vars

\* Two callbacks were made while a draft message exists: one with a context
\* that has no next model, one without a context.
C30_Witness ==
    /\ fallbackCalls = 2 /\ Len(alerts) = 2
    /\ sentMessageId # 0
    /\ alerts[1].context # <<>> /\ alerts[1].context[1].next = <<>>
    /\ alerts[2].context = <<>>

\* ----------------------------------------------- claims on the cooldown ledger
\* C23: no ledger writer's update is lost: whatever way the writers' loads
\* and saves interleave, the persisted ledger is the one their updates give
\* when applied one after the other (every recorded failure is there, and a
\* reset of one provider leaves what was written meanwhile to another
\* provider's entry).
C23_NoLostUpdate == ledger = expect

\* cooldownUntil and disabledUntil of a key's entry, 0 when not there.
CooldownOf(usage, key) == IF usage[key] = <<>> THEN 0 ELSE Val(usage[key][1].cooldownUntil, 0)
DisabledOf(usage, key) == IF usage[key] = <<>> THEN 0 ELSE Val(usage[key][1].disabledUntil, 0)
Cooling(usage, key, t) == CooldownOf(usage, key) > t \/ DisabledOf(usage, key) > t

\* C24: the walk takes the candidates in priority order, one at a time: a
\* candidate whose entry has cooldownUntil > now or disabledUntil > now gets a
\* skip-attempt and is not invoked, any other is invoked; so the first
\* candidate invoked is the first one not in cooldown.
C24_SkipsInOrder ==
    [][/\ (sel.pc = "walk" /\ sel.idx <= Len(Candidates) /\ sel' # sel)
            => IF Cooling(ledger, Candidates[sel.idx], clock)
               THEN /\ sel'.pc = "walk" /\ sel'.idx = sel.idx + 1
                    /\ sel'.invoked = sel.invoked
                    /\ Len(sel'.attempts) = Len(sel.attempts) + 1
                    /\ SubSeq(sel'.attempts, 1, Len(sel.attempts)) = sel.attempts
                    /\ sel'.attempts[Len(sel'.attempts)].modelRef = Candidates[sel.idx]
                    /\ sel'.attempts[Len(sel'.attempts)].error = "skip"
               ELSE /\ sel'.pc = "invoking" /\ sel'.idx = sel.idx
                    /\ sel'.invoked = sel.invoked \cup {sel.idx}
                    /\ sel'.attempts = sel.attempts
                    /\ sel.invoked = {}
                         => \A i \in 1..Len(sel.attempts) : sel.attempts[i].error = "skip"
       /\ \A i \in sel'.invoked : i <= sel'.idx
       /\ sel'.invoked # sel.invoked => sel.pc = "walk" \/ sel'.invoked = {}]_vars

\* The first two candidates are out of use (the second disabled), so they
\* were skipped and the third is the only one invoked.
C24_Witness ==
    /\ sel.pc = "invoking" /\ sel.idx = 3 /\ sel.invoked = {3}
    /\ Len(sel.attempts) = 2
    /\ sel.attempts[1].error = "skip" /\ sel.attempts[2].error = "skip"
    /\ CooldownOf(ledger, Candidates[1]) > clock
    /\ DisabledOf(ledger, Candidates[2]) > clock /\ CooldownOf(ledger, Candidates[2]) = 0

\* C25: the AllModelsFailedError thrown has allInCooldown true exactly when
\* no candidate was invoked (every attempt is a skip), and its retryAfterMs is
\* the least cooldownUntil of the candidates in cooldown minus now; so with
\* every candidate in cooldown none is invoked, allInCooldown is true and
\* retryAfterMs is min(cooldownUntil) - now.
C25_Exhaustion ==
    [][(sel'.pc = "threw" /\ sel.pc # "threw")
        => /\ sel'.error # <<>>
           /\ sel'.error[1].attempts = sel.attempts
           /\ sel'.error[1].allInCooldown = (sel.invoked = {})
           /\ sel'.error[1].allInCooldown
                = (\A i \in 1..Len(sel.attempts) : sel.attempts[i].error = "skip")
           /\ (\E i \in 1..Len(Candidates) : CooldownOf(ledger, Candidates[i]) > clock)
                => \E i \in 1..Len(Candidates) :
                      /\ CooldownOf(ledger, Candidates[i]) > clock
                      /\ sel'.error[1].retryAfterMs
                            = <<CooldownOf(ledger, Candidates[i]) - clock>>
                      /\ \A j \in 1..Len(Candidates) :
                            CooldownOf(ledger, Candidates[j]) > clock
                              => CooldownOf(ledger, Candidates[i])
                                   <= CooldownOf(ledger, Candidates[j])]_vars

\* Every candidate is cooling down, until different times: none was invoked
\* and the error thrown carries the least of the times left.
C25_Witness ==
    /\ sel.pc = "threw" /\ sel.invoked = {} /\ Len(sel.attempts) = Len(Candidates)
    /\ clock = StartClock
    /\ \A i \in 1..Len(Candidates) : CooldownOf(ledger, Candidates[i]) > clock
    /\ CooldownOf(ledger, Candidates[1]) # CooldownOf(ledger, Candidates[2])
    /\ sel.error[1].allInCooldown
    /\ sel.error[1].retryAfterMs = <<2>>

AttemptLogOk ==
    sel.pc \in {"walk", "invoking", "returned", "threw"}
      => /\ Len(sel.attempts) = sel.idx - 1
         /\ \A i \in 1..Len(sel.attempts) :
               /\ sel.attempts[i].modelRef = Candidates[i]
               /\ (sel.attempts[i].error = "skip") = (i \notin sel.invoked)
         /\ sel.streams = IF sel.pc = "returned" THEN 1 ELSE 0
         /\ sel.pc = "returned" => sel.idx \in sel.invoked

\* C27: one selectAndStream call logs exactly one FallbackAttempt for each
\* candidate that failed or was skipped before the first success, in
\* candidate order; a candidate that fails is in cooldown when its failure is
\* recorded, and the call returns exactly one stream.
C27_OneAttemptPerCandidate ==
    [][/\ AttemptLogOk'
       /\ (sel.pc = "invoking" /\ sel'.pc # "invoking" /\ sel'.pc # "returned")
            => Cooling(ledger', Candidates[sel.idx], clock')]_vars

\* Three candidates failed with a transient error and are cooling down, the
\* fourth succeeded: three attempts are logged and one stream is returned.
C27_Witness ==
    /\ sel.pc = "returned" /\ sel.idx = 4 /\ sel.streams = 1
    /\ Len(sel.attempts) = 3
    /\ \A i \in 1..3 : /\ sel.attempts[i].error = "transient"
                        /\ CooldownOf(ledger, Candidates[i]) > clock

\* The profile id has the provider before its first ':'.
HasProvider(profileId, provider) ==
    \E n \in 1..Len(profileId) :
        /\ profileId[n] = ":"
        /\ \A m \in 1..(n - 1) : profileId[m] # ":"
        /\ SubSeq(profileId, 1, n - 1) = provider

\* C28: a reset that is not a dry run and finds an entry to clear saves the
\* store it loaded with errorCount, cooldownUntil, disabledUntil,
\* disabledReason, failureCounts, lastFailureAt and modelStats removed from
\* every entry of the provider given (of every provider when none is given),
\* the other entries and fields as loaded.
C28_ResetClearsProvider ==
    [][/\ (rc' # rc /\ rc.pc # "loaded" /\ ~rc'.dryRun
           /\ \E id \in ProfileIds :
                 ledger[id] # <<>> /\ (rc'.provider = <<>> \/ HasProvider(id, rc'.provider)))
            => rc'.pc = "loaded" /\ rc'.store = ledger
       /\ (rc.pc = "loaded" /\ rc'.pc = "done")
            => \A id \in ProfileIds :
                 IF rc.store[id] # <<>> /\ (rc.provider = <<>> \/ HasProvider(id, rc.provider))
                 THEN /\ ledger'[id] # <<>>
                      /\ \A f \in {"errorCount", "cooldownUntil", "disabledUntil",
                                    "disabledReason", "failureCounts", "lastFailureAt",
                                    "modelStats"} : ledger'[id][1][f] = <<>>
                      /\ ledger'[id][1].lastUsed = rc.store[id][1].lastUsed
                 ELSE ledger'[id] = rc.store[id]]_vars

\* A reset of provider "or" has run on a store where every profile was
\* cooling down: the "or" entries are cleared, the "go" entries are as before.
C28_Witness ==
    /\ rc.pc = "done" /\ rc.provider = <<"or">> /\ ~rc.dryRun
    /\ CooldownOf(rc.store, Candidates[1]) > 0 /\ CooldownOf(ledger, Candidates[1]) = 0
    /\ ledger[Candidates[1]] # <<>> /\ ledger[Candidates[1]][1].modelStats = <<>>
    /\ CooldownOf(ledger, Candidates[3]) > 0
    /\ ledger[Candidates[3]] = rc.store[Candidates[3]]

\* C29: no step of a dry run of the reset command changes the persisted
\* store.
C29_DryRunSavesNothing ==
    [][(rc' # rc /\ rc'.dryRun) => (ledger' = ledger /\ rc'.pc = "done")]_vars

\* A dry run has ended on a store with cooldowns it would have cleared; the
\* store is as the run loaded it.
C29_Witness ==
    /\ rc.pc = "done" /\ rc.dryRun
    /\ \E id \in ProfileIds :
          /\ rc.provider = <<>> \/ HasProvider(id, rc.provider)
          /\ CooldownOf(rc.store, id) > 0
    /\ ledger = rc.store

\* ------------------------------------- further claims on the draft stream
\* C33: an update() made while a send is in flight starts no sink call, puts
\* its text in place of the pending text and leaves a timer armed; a sink
\* call is started only when none is outstanding and takes all the pending
\* text; once timers and sink calls have completed (no stop(), a sink that
\* succeeds, texts within the cap) the text sent last is that of the latest
\* update().
C33_CoalescedWhileSending ==
    [][/\ \A text \in Texts :
            (Update(text) /\ inFlight /\ ~stopped)
              => (calls' = calls /\ pendingText' = text /\ timer' # <<>>)
       /\ Len(calls') > Len(calls)
            => /\ ~inFlight /\ calls = <<>> /\ Len(calls') = 1
               /\ pendingText' = <<>>
               /\ calls'[1].text # lastSentText
       /\ (Quiescent' /\ awaiting' = "none" /\ ~stopCalled' /\ ~sinkFailed' /\ ~overCap'
             /\ trimEnd(lastUpdateText') # <<>>)
            => lastSentText' = trimEnd(lastUpdateText')]_vars

\* A send has been in flight for throttleMs or longer, and the text of an
\* update() made meanwhile is pending behind it.
C33_Witness ==
    /\ inFlight /\ Len(calls) = 1 /\ ~stopped
    /\ now - lastSentAt >= throttleMs
    /\ pendingText # <<>> /\ pendingText = lastUpdateText
    /\ trimEnd(pendingText) # lastSentText
    /\ timer # <<>>

\* C35: while the stream is not stopped and no send is in flight, pending
\* text that is not empty has a throttle timer armed for it.
C35_PendingHasTimer ==
    (~stopped /\ ~inFlight /\ pendingText # <<>>) => timer # <<>>

\* The send that was in flight has completed and created the draft message;
\* the text of a later update() is pending and the timer is armed for it.
C35_Witness ==
    /\ ~stopped /\ ~inFlight /\ calls = <<>>
    /\ sentMessageId # 0
    /\ pendingText # <<>> /\ trimEnd(pendingText) # lastSentText
    /\ timer # <<>> /\ timer[1] > now

\* ----------------------------------------- further claims on the dispatch
\* C34: in block mode the flushDraft of a final delivery drains the chunker
\* with force: nothing stays held back and the body is the whole latest
\* partial text, also when that text does not end at a safe boundary; when
\* text was held back, the text rendered from that body is given to
\* draftStream.update() before draftStream.flush() (it is pending behind a
\* send in flight, or it is the text sent last).
C34_FinalForceDrain ==
    [][(streamMode = "block" /\ dlv = "idle" /\ dlv' = "flush")
         => /\ chunkBuf' = <<>>
            /\ draftText' = lastPartialText'
            /\ (chunkBuf # <<>> /\ ~stopped)
                 => \/ pendingText' = combined(draftModelStatus', draftToolStatus',
                                                draftReasoning', draftText', isStreaming')
                    \/ lastSentText' = combined(draftModelStatus', draftToolStatus',
                                                 draftReasoning', draftText', isStreaming')]_vars

\* The latest partial text ended off a safe boundary; the flush of the final
\* delivery committed it all and its send is in flight.
C34_Witness ==
    /\ streamMode = "block" /\ dlv = "flush" /\ dlvKind = "final"
    /\ Len(lastPartialText) = MaxPartialLen
    /\ lastPartialText[Len(lastPartialText)] # ChunkBoundary
    /\ chunkBuf = <<>> /\ draftText = lastPartialText
    /\ Len(calls) = 1
    /\ calls[1].text = combined(draftModelStatus, draftToolStatus, draftReasoning, draftText,
                                isStreaming)
    /\ lastMutation.trigger = "update"

\* C36: the draft body is always a prefix of the latest partial reply text,
\* and equal to it in stream mode "partial".
C36_BodyIsPrefix ==
    /\ IsPrefix(draftText, lastPartialText)
    /\ streamMode = "partial" => draftText = lastPartialText

\* Block mode, after a partial reply that restarted the text: part of the
\* latest text is committed to the body, the rest is held back.
C36_Witness ==
    /\ streamMode = "block" /\ restarted
    /\ draftText # <<>> /\ chunkBuf # <<>>
    /\ draftText # lastPartialText /\ IsPrefix(draftText, lastPartialText)

PAGE_SIZE == 10

MaxModels == 21
MaxPage == 4

Providers == {"p1", "p2"}

\* The requested pages: below the first, the first, and beyond the last.
Pages == (0 - MaxPage)..MaxPage

\* A catalog with n models of provider "p1", in order; a mixed catalog has a
\* model of provider "p2" before each of them.
catalogOf(n, mixed) ==
    IF mixed
    THEN [i \in 1..(2 * n) |->
            IF i % 2 = 1 THEN [provider |-> "p2", model |-> (i + 1) \div 2]
            ELSE [provider |-> "p1", model |-> i \div 2]]
    ELSE [i \in 1..n |-> [provider |-> "p1", model |-> i]]

Catalogs == {catalogOf(n, mixed) : n \in 0..MaxModels, mixed \in BOOLEAN}

\* Math.ceil(n / d) for n >= 0 and d > 0.
ceilDiv(n, d) == (n + d - 1) \div d

\* Array.prototype.slice(start, end) for 0 <= start <= end.
slice(seq, start, end) == SubSeq(seq, start + 1, Min(end, Len(seq)))

\* The message buildModelPickerMessage returns: the page shown, the label's
\* total, one button row per item, and the page each navigation button asks
\* for (<<>> when the button is absent).
buildModelPickerMessage(catalog, provider, pageParam) ==
    LET allItems == SelectSeq(catalog, LAMBDA item : item.provider = provider)
        totalPages == ceilDiv(Len(allItems), PAGE_SIZE)
        page == Max(1, Min(pageParam, totalPages))
        start == (page - 1) * PAGE_SIZE
        items == slice(allItems, start, start + PAGE_SIZE)
    IN  [page |-> page, totalPages |-> totalPages, items |-> items,
         prev |-> IF page > 1 THEN <<page - 1>> ELSE <<>>,
         next |-> IF page < totalPages THEN <<page + 1>> ELSE <<>>]

InitPicker ==
    /\ InitEngine(<<>>, <<>>) /\ InitEnv /\ InitHist
    /\ IdleDispatch /\ NoLedger /\ NoWrapper /\ EmptyCache
    /\ \E catalog \in Catalogs, provider \in Providers, page \in Pages :
            pk = [pc |-> "called", catalog |-> catalog, provider |-> provider, page |-> page,
                  out |-> <<>>]

BuildModelPickerMessage ==
    /\ pk.pc = "called"
    /\ pk' = [pk EXCEPT !.pc = "returned",
                        !.out = <<buildModelPickerMessage(pk.catalog, pk.provider, pk.page)>>]
    /\ UNCHANGED <<draftVars, dispVars, ledgerVars, tw, cacheVars>>

NextPicker == BuildModelPickerMessage

SpecPicker == InitPicker /\ [][NextPicker]_vars

\* The models of the request's provider, in catalog order.
ModelsOfProvider == SelectSeq(pk.catalog, LAMBDA item : item.provider = pk.provider)

\* The least number of pages of ten that hold count models.
PagesFor(count) == CHOOSE t \in 0..count : t * 10 >= count /\ (t > 0 => (t - 1) * 10 < count)

\* C31: the message buildModelPickerMessage returns shows a page p with
\* 1 <= p <= totalPages, where totalPages = ceil(count / 10), exactly the
\* models at positions (p-1)*10+1 .. min(count, p*10) of the provider's models
\* in catalog order, a Prev button iff p > 1 and a Next button iff
\* p < totalPages, for any number of models and any requested page.
C31_PageInRange ==
    pk.pc = "returned" =>
        LET out == pk.out[1]
            count == Len(ModelsOfProvider)
            p == out.page
        IN  /\ out.totalPages = PagesFor(count)
            /\ 1 <= p /\ p <= out.totalPages
            /\ out.items = [i \in 1..(Min(count, p * 10) - (p - 1) * 10) |->
                               ModelsOfProvider[(p - 1) * 10 + i]]
            /\ (out.prev # <<>>) <=> (p > 1)
            /\ (out.next # <<>>) <=> (p < out.totalPages)

\* ------------------------------------------- createThinkingDisabledWrapper
MaxPayloads == 2

Models == [reasoning : BOOLEAN, api : {"anthropic-messages", "openai-responses"}]

\* The options the caller passes to the stream function: none, options
\* without an onPayload callback, options with one.
CallerOptions == {"undefined", "noOnPayload", "onPayload"}

\* A request payload, as far as its 'thinking' key goes: no key (<<>>) or a
\* key with a value (<<value>>), null included.
Payloads == [thinking : {<<>>, <<"null">>, <<"enabled">>, <<"disabled">>}]

\* The stream function returned: the base function itself or a wrapper.
createThinkingDisabledWrapper(model) ==
    IF ~model.reasoning \/ model.api # "anthropic-messages" THEN "base" ELSE "wrapped"

nextOnPayloadAlways(payload) == [payload EXCEPT !.thinking = <<"disabled">>]

\* The payload as nextOnPayload leaves it.
nextOnPayload(payload) ==
    IF payload.thinking = <<>> THEN [payload EXCEPT !.thinking = <<"disabled">>] ELSE payload

InitWrapper ==
    /\ InitEngine(<<>>, <<>>) /\ InitEnv /\ InitHist
    /\ IdleDispatch /\ NoLedger /\ NoPicker /\ EmptyCache
    /\ \E model \in Models, options \in CallerOptions :
            tw = [pc |-> "start", model |-> model, options |-> options, fn |-> "none",
                  baseOptions |-> "none", built |-> <<>>, captured |-> <<>>]

CreateWrapper ==
    /\ tw.pc = "start"
    /\ tw' = [tw EXCEPT !.pc = "created", !.fn = createThinkingDisabledWrapper(tw.model)]
    /\ UNCHANGED <<draftVars, dispVars, ledgerVars, pk, cacheVars>>

\* The caller calls the stream function it was given; the base stream
\* function receives the caller's options or the wrapper's.
CallStreamFn ==
    /\ tw.pc = "created"
    /\ tw' = [tw EXCEPT !.pc = "streaming",
                        !.baseOptions = IF tw.fn = "wrapped" THEN "next"
                                        ELSE IF tw.options = "onPayload" THEN "caller"
                                        ELSE "none"]
    /\ UNCHANGED <<draftVars, dispVars, ledgerVars, pk, cacheVars>>

\* The base stream function builds a request payload and calls the onPayload
\* of the options it received, if there is one.
BaseOnPayload(payload) ==
    /\ tw.pc = "streaming" /\ Len(tw.built) < MaxPayloads
    /\ LET after == IF tw.baseOptions = "next" THEN nextOnPayload(payload) ELSE payload
           forwarded == \/ tw.baseOptions = "caller"
                        \/ tw.baseOptions = "next" /\ tw.options = "onPayload"
       IN  tw' = [tw EXCEPT !.built = Append(@, [before |-> payload, after |-> after]),
                            !.captured = IF forwarded THEN Append(@, after) ELSE @]
    /\ UNCHANGED <<draftVars, dispVars, ledgerVars, pk, cacheVars>>

NextWrapper ==
    \/ CreateWrapper
    \/ CallStreamFn
    \/ \E payload \in Payloads : BaseOnPayload(payload)

SpecWrapper == InitWrapper /\ [][NextWrapper]_vars

\* The model is a reasoning model with api 'anthropic-messages'.
Wraps == tw.model.reasoning /\ tw.model.api = "anthropic-messages"

\* C32: for a reasoning model with api 'anthropic-messages' the stream
\* function returned sets thinking = {type: 'disabled'} on a payload iff the
\* payload has no 'thinking' key, keeps any existing value (null included),
\* and forwards every payload to the caller's onPayload exactly once; for any
\* other model the function returned is the base stream function itself.
C32_ThinkingDisabled ==
    /\ tw.fn # "none" => (tw.fn = "base" <=> ~Wraps)
    /\ Wraps =>
        /\ \A i \in 1..Len(tw.built) :
              LET b == tw.built[i]
              IN  IF b.before.thinking = <<>>
                  THEN b.after = [b.before EXCEPT !.thinking = <<"disabled">>]
                  ELSE b.after = b.before
        /\ tw.options = "onPayload"
              => tw.captured = [i \in 1..Len(tw.built) |-> tw.built[i].after]

\* A wrapped stream function has passed on a payload without a thinking key
\* and one whose thinking key is null, to a caller with an onPayload.
C32_Witness ==
    /\ Wraps /\ tw.fn = "wrapped" /\ tw.options = "onPayload"
    /\ Len(tw.built) = 2 /\ Len(tw.captured) = 2
    /\ tw.built[1].before.thinking = <<>>
    /\ tw.built[2].before.thinking = <<"null">>

\* ------------------------------------------- the cache of sent messages
TTL_MS == 24 * 60 * 60 * 1000

\* The number of message ids of a chat above which recordSentMessage sweeps
\* the chat's entry (100 in the source, scaled to the message ids modelled).
SweepAbove == 2

MaxRecords == 3
MaxAdvances == 2

\* The steps Date.now() advances by: a millisecond, the time to live.
ClockSteps == {1, TTL_MS}

\* The content argument of recordSentMessage: undefined (<<>>) or a string.
Contents == {"a", "b"}
ContentArgs == {<<>>, <<"a">>}

NewEntry == [messageIds |-> {}, timestamps |-> <<>>, contentHashes |-> <<>>]

\* Map.prototype.set, Map.prototype.delete (of a set of keys) and
\* Map.prototype.get (<<>> for undefined).
mapSet(map, key, value) == [k \in DOMAIN map \cup {key} |-> IF k = key THEN value ELSE map[k]]
mapDelete(map, keys) == [k \in DOMAIN map \ keys |-> map[k]]
mapGet(map, key) == IF key \in DOMAIN map THEN <<map[key]>> ELSE <<>>

isExpiredAtTtl(nowMs, timestamp) == nowMs - timestamp >= TTL_MS

isExpired(nowMs, timestamp) == nowMs - timestamp > TTL_MS

cleanupExpiredKeepHashes(entry, nowMs) ==
    LET expired == {msgId \in DOMAIN entry.timestamps : isExpired(nowMs, entry.timestamps[msgId])}
    IN  [messageIds |-> entry.messageIds \ expired,
         timestamps |-> mapDelete(entry.timestamps, expired),
         contentHashes |-> entry.contentHashes]

\* The entry as cleanupExpired leaves it: every message id whose timestamp
\* has expired is deleted from the set and from both maps.
cleanupExpired(entry, nowMs) ==
    LET expired == {msgId \in DOMAIN entry.timestamps : isExpired(nowMs, entry.timestamps[msgId])}
    IN  [messageIds |-> entry.messageIds \ expired,
         timestamps |-> mapDelete(entry.timestamps, expired),
         contentHashes |-> mapDelete(entry.contentHashes, expired)]

\* The chat's entry as recordSentMessage leaves it.
recordSentMessage(entryOpt, messageId, content, nowMs) ==
    LET entry == IF entryOpt = <<>> THEN NewEntry ELSE entryOpt[1]
        added == [messageIds |-> entry.messageIds \cup {messageId},
                  timestamps |-> mapSet(entry.timestamps, messageId, nowMs),
                  contentHashes |-> IF content # <<>>
                                    THEN mapSet(entry.contentHashes, messageId, content[1])
                                    ELSE entry.contentHashes]
    IN  IF Cardinality(added.messageIds) > SweepAbove THEN cleanupExpired(added, nowMs) ELSE added

InitCache ==
    /\ InitEngine(<<>>, <<>>) /\ InitEnv /\ InitHist
    /\ IdleDispatch /\ NoLedger /\ NoPicker /\ NoWrapper
    /\ EmptyCache

RecordSentMessage(chatId, messageId, content) ==
    /\ nRecords < MaxRecords
    /\ LET key == getChatKey(chatId)
       IN  /\ sentMessages' = [sentMessages EXCEPT
                ![key] = <<recordSentMessage(sentMessages[key], messageId, content, dateNow)>>]
           /\ recorded' = [recorded EXCEPT ![key][messageId] = <<dateNow>>]
    /\ nRecords' = nRecords + 1
    /\ UNCHANGED <<dateNow, lastRead, nAdvances>>
    /\ UNCHANGED <<draftVars, dispVars, ledgerVars, pk, tw>>

IsMessageContentUnchanged(chatId, messageId, content) ==
    /\ LET entryOpt == sentMessages[getChatKey(chatId)]
       IN  lastRead' = [op |-> "isMessageContentUnchanged",
                        result |-> IF entryOpt = <<>> THEN FALSE
                                   ELSE mapGet(entryOpt[1].contentHashes, messageId) = <<content>>]
    /\ UNCHANGED <<sentMessages, dateNow, recorded, nRecords, nAdvances>>
    /\ UNCHANGED <<draftVars, dispVars, ledgerVars, pk, tw>>

WasSentByBot(chatId, messageId) ==
    /\ LET key == getChatKey(chatId)
           entryOpt == sentMessages[key]
       IN  IF entryOpt = <<>>
           THEN /\ lastRead' = [op |-> "wasSentByBot", result |-> FALSE]
                /\ UNCHANGED sentMessages
           ELSE LET entry == cleanupExpired(entryOpt[1], dateNow)
                IN  /\ sentMessages' = [sentMessages EXCEPT ![key] = <<entry>>]
                    /\ lastRead' = [op |-> "wasSentByBot",
                                    result |-> messageId \in entry.messageIds]
    /\ UNCHANGED <<dateNow, recorded, nRecords, nAdvances>>
    /\ UNCHANGED <<draftVars, dispVars, ledgerVars, pk, tw>>

ClearSentMessageCache ==
    /\ sentMessages' = [key \in ChatKeys |-> <<>>]
    /\ recorded' = [key \in ChatKeys |-> [messageId \in MessageIds |-> <<>>]]
    /\ UNCHANGED <<dateNow, lastRead, nRecords, nAdvances>>
    /\ UNCHANGED <<draftVars, dispVars, ledgerVars, pk, tw>>

\* Time passes.
DateAdvance(step) ==
    /\ nAdvances < MaxAdvances
    /\ dateNow' = dateNow + step
    /\ nAdvances' = nAdvances + 1
    /\ UNCHANGED <<sentMessages, lastRead, recorded, nRecords>>
    /\ UNCHANGED <<draftVars, dispVars, ledgerVars, pk, tw>>

NextCache ==
    \/ \E chatId \in ChatIds, messageId \in MessageIds, content \in ContentArgs :
            RecordSentMessage(chatId, messageId, content)
    \/ \E chatId \in ChatIds, messageId \in MessageIds, content \in Contents :
            IsMessageContentUnchanged(chatId, messageId, content)
    \/ \E chatId \in ChatIds, messageId \in MessageIds : WasSentByBot(chatId, messageId)
    \/ ClearSentMessageCache
    \/ \E step \in ClockSteps : DateAdvance(step)

SpecCache == InitCache /\ [][NextCache]_vars

\* The message was recorded for the chat since the cache was last cleared,
\* and its latest recording is at most the time to live old.
RecordedInTtl(key, messageId) ==
    /\ recorded[key][messageId] # <<>>
    /\ dateNow - recorded[key][messageId][1] <= TTL_MS

\* The message ids the chat's entry holds.
HeldIds(key) == IF sentMessages[key] = <<>> THEN {} ELSE sentMessages[key][1].messageIds

\* C38: wasSentByBot(chatId, messageId) returns true iff recordSentMessage
\* was called for that chat and message at most 24 hours earlier, counted
\* from the latest recording, with no clearing of the cache since; it is
\* never true for a message recorded only for another chat, whatever sweeps
\* ran in between.
C38_SentWithinTtl ==
    [][\A chatId \in ChatIds, messageId \in MessageIds :
          WasSentByBot(chatId, messageId)
            => /\ lastRead'.result <=> RecordedInTtl(getChatKey(chatId), messageId)
               /\ lastRead'.result
                    => \E other \in ChatIds :
                          /\ getChatKey(other) = getChatKey(chatId)
                          /\ recorded[getChatKey(other)][messageId] # <<>>]_vars

\* A read answered true for a message exactly the time to live old, after a
\* sweep dropped an older message of the same chat from an entry that had
\* grown above the sweep size, while the other chat has no entry.
C38_Witness ==
    /\ lastRead = [op |-> "wasSentByBot", result |-> TRUE]
    /\ \E key \in ChatKeys, kept \in MessageIds, swept \in MessageIds :
          /\ recorded[key][kept] # <<>> /\ dateNow - recorded[key][kept][1] = TTL_MS
          /\ kept \in HeldIds(key)
          /\ recorded[key][swept] # <<>> /\ dateNow - recorded[key][swept][1] > TTL_MS
          /\ swept \notin HeldIds(key)
          /\ Cardinality(HeldIds(key)) = SweepAbove
          /\ \E k2 \in ChatKeys \ {key} : sentMessages[k2] = <<>>

\* C39: in every chat entry the messageIds set and the timestamps map hold
\* exactly the same message ids, and contentHashes has entries only for ids
\* in messageIds.
C39_EntryConsistent ==
    \A key \in ChatKeys :
        sentMessages[key] # <<>> =>
            LET entry == sentMessages[key][1]
            IN  /\ entry.messageIds = DOMAIN entry.timestamps
                /\ DOMAIN entry.contentHashes \subseteq entry.messageIds

\* A sweep has dropped a message recorded with content from an entry that
\* still holds one message with content and one without.
C39_Witness ==
    \E key \in ChatKeys, swept \in MessageIds :
        /\ sentMessages[key] # <<>>
        /\ recorded[key][swept] # <<>> /\ swept \notin HeldIds(key)
        /\ Cardinality(HeldIds(key)) = 2
        /\ Cardinality(DOMAIN sentMessages[key][1].contentHashes) = 1
        /\ lastRead = [op |-> "isMessageContentUnchanged", result |-> TRUE]

====
